---- MODULE Spec2Model ----
(***************************************************************************)
(* Model of libabx (src/src/abx.cc): the Android Binary XML codec.         *)
(*                                                                         *)
(* Strings are sequences of byte values (0..255), streams are sequences    *)
(* of bytes.  An exception thrown by the C++ code is the field "thrown" of *)
(* the record an operator returns: once it is set, the statements that     *)
(* follow in the same call are skipped, the bytes written before it stay.  *)
(***************************************************************************)
EXTENDS Integers, Sequences, FiniteSets, TLC

(***************************************************************************)
(* Bounds of the model.                                                    *)
(***************************************************************************)
\* number of serializer calls made on one instance
MaxCalls == 3

(***************************************************************************)
(* Wire constants (src/src/abx.hpp).                                       *)
(***************************************************************************)
MAX_UNSIGNED_SHORT == 65535

START_DOCUMENT == 0
END_DOCUMENT == 1
START_TAG == 2
END_TAG == 3
TEXT == 4
CDSECT == 5
ENTITY_REF == 6
IGNORABLE_WHITESPACE == 7
PROCESSING_INSTRUCTION == 8
COMMENT == 9
DOCDECL == 10
ATTRIBUTE == 15
TYPE_NULL == 16
TYPE_STRING == 32
TYPE_STRING_INTERNED == 48
TYPE_BYTES_HEX == 64
TYPE_BYTES_BASE64 == 80
TYPE_INT == 96
TYPE_INT_HEX == 112
TYPE_LONG == 128
TYPE_LONG_HEX == 144
TYPE_FLOAT == 160
TYPE_DOUBLE == 176
TYPE_BOOLEAN_TRUE == 192
TYPE_BOOLEAN_FALSE == 208

PROTOCOL_MAGIC_VERSION_0 == <<65, 66, 88, 0>>

\* the characters 32..95 and 97..126 as strings of one character
AsciiLow ==
  <<" ", "!", "\"", "#", "$", "%", "&", "'", "(", ")", "*", "+", ",", "-",
    ".", "/", "0", "1", "2", "3", "4", "5", "6", "7", "8", "9", ":", ";",
    "<", "=", ">", "?", "@", "A", "B", "C", "D", "E", "F", "G", "H", "I",
    "J", "K", "L", "M", "N", "O", "P", "Q", "R", "S", "T", "U", "V", "W",
    "X", "Y", "Z", "[", "\\", "]", "^", "_">>
AsciiHigh ==
  <<"a", "b", "c", "d", "e", "f", "g", "h", "i", "j", "k", "l", "m", "n",
    "o", "p", "q", "r", "s", "t", "u", "v", "w", "x", "y", "z", "{", "|",
    "}", "~">>

\* a std::string of printable characters as the text of a message
RECURSIVE Characters(_)
Characters(bytes) ==
  IF bytes = <<>> THEN ""
  ELSE (IF Head(bytes) < 96 THEN AsciiLow[Head(bytes) - 31]
        ELSE AsciiHigh[Head(bytes) - 96]) \o Characters(Tail(bytes))

\* what() of the std::runtime_error thrown ("ok": none was thrown)
NoError == "ok"
StringTooLong == "String length exceeds maximum allowed size"
PoolOverflow == "String pool overflow - too many unique strings"
UnbalancedEnd == "endTag() called without matching startTag()"
TagMismatch(expected, got) ==
  "Mismatched tags: expected '" \o Characters(expected) \o "', got '" \o Characters(got) \o "'"

(***************************************************************************)
(* Local values.  [x \in Any |-> body][e] is body with x standing for the  *)
(* value of e: e is computed once, before body, the way a C++ statement    *)
(* computes its operands before the statements that follow it.  A chain of *)
(* locals reads from the inside out: the "][e]" that closes a binder is    *)
(* written in the column of the "[" that opens it.                         *)
(***************************************************************************)

(***************************************************************************)
(* FastDataOutput: the big-endian writer and the write-side pool.          *)
(* A writer state w is a record                                            *)
(*   output_stream    : the bytes written to the sink so far               *)
(*   string_pool      : string -> index (unordered_map)                    *)
(*   interned_strings : the pool in insertion order (vector)               *)
(*   mTagNames, mTagCount : the serializer's tag stack                     *)
(*   thrown           : NoError, or the exception in flight                *)
(***************************************************************************)
Low8(v) == v % 256

writeByte(w0, value) ==
  [w \in Any |->
    IF w.thrown # NoError THEN w
    ELSE [w EXCEPT !.output_stream = Append(@, value)]
  ][w0]

\* the two bytes are swapped and then stored in host (little-endian) order:
\* the high byte reaches the stream first
writeShort(w0, value0) ==
  [w \in Any, value \in Any |->
    IF w.thrown # NoError THEN w
    ELSE [w EXCEPT !.output_stream = @ \o <<(value \div 256) % 256, Low8(value)>>]
  ][w0, value0]

\* int32_t value in -2^31 .. 2^31-1; the four bytes of its two's complement
IntBytes(value0) ==
  [value \in Any |->
    [u \in Any |->
      << IF value < 0 THEN (u \div 16777216) + 128 ELSE u \div 16777216,
         (u \div 65536) % 256, (u \div 256) % 256, u % 256 >>
    ][IF value < 0 THEN value + 2147483647 + 1 ELSE value]
  ][value0]

writeInt(w0, value) ==
  [w \in Any |->
    IF w.thrown # NoError THEN w
    ELSE [w EXCEPT !.output_stream = @ \o IntBytes(value)]
  ][w0]

\* std::vector<uint8_t> written as is
write(w0, data) ==
  [w \in Any |->
    IF w.thrown # NoError THEN w
    ELSE [w EXCEPT !.output_stream = @ \o data]
  ][w0]

\* a writer whose limit is one byte too low
writeUTF_one_short(w0, str0) ==
  [w \in Any, str \in Any |->
    IF w.thrown # NoError THEN w
    ELSE IF Len(str) >= MAX_UNSIGNED_SHORT
         THEN [w EXCEPT !.thrown = StringTooLong]
         ELSE write(writeShort(w, Len(str)), str)
  ][w0, str0]

writeUTF(w0, str0) ==
  [w \in Any, str \in Any |->
    IF w.thrown # NoError THEN w
    ELSE IF Len(str) > MAX_UNSIGNED_SHORT
         THEN [w EXCEPT !.thrown = StringTooLong]
         ELSE write(writeShort(w, Len(str)), str)
  ][w0, str0]

\* a writer without the pool lookup: every string is introduced anew
writeInternedUTF_always_new(w0, str0) ==
  [w \in Any, str \in Any |->
    IF w.thrown # NoError THEN w
    ELSE [w2 \in Any |->
           IF w2.thrown # NoError THEN w2
           ELSE [w2 EXCEPT
                   !.string_pool =
                      [s \in DOMAIN w.string_pool \cup {str} |-> Len(w.interned_strings)],
                   !.interned_strings = Append(@, str)]
         ][writeUTF(writeShort(w, 65535), str)]
  ][w0, str0]

\* a writer whose pool takes one string more: the new string gets the index
\* 65535
writeInternedUTF_one_more(w0, str0) ==
  [w \in Any, str \in Any |->
    IF w.thrown # NoError THEN w
    ELSE IF str \in DOMAIN w.string_pool
         THEN writeShort(w, w.string_pool[str])
         ELSE IF Len(w.interned_strings) > MAX_UNSIGNED_SHORT
              THEN [w EXCEPT !.thrown = PoolOverflow]
              ELSE [w2 \in Any |->
                     IF w2.thrown # NoError THEN w2
                     ELSE [w2 EXCEPT
                             !.string_pool = (str :> Len(w.interned_strings)) @@ @,
                             !.interned_strings = Append(@, str)]
                   ][writeUTF(writeShort(w, 65535), str)]
  ][w0, str0]

writeInternedUTF(w0, str0) ==
  [w \in Any, str \in Any |->
    IF w.thrown # NoError THEN w
    ELSE IF str \in DOMAIN w.string_pool
         THEN writeShort(w, w.string_pool[str])
         ELSE IF Len(w.interned_strings) >= MAX_UNSIGNED_SHORT
              THEN [w EXCEPT !.thrown = PoolOverflow]
              ELSE [w2 \in Any |->
                     IF w2.thrown # NoError THEN w2
                     ELSE [w2 EXCEPT
                             !.string_pool = (str :> Len(w.interned_strings)) @@ @,
                             !.interned_strings = Append(@, str)]
                   ][writeUTF(writeShort(w, 65535), str)]
  ][w0, str0]

(***************************************************************************)
(* BinaryXmlSerializer.                                                    *)
(***************************************************************************)
\* text = <<>> stands for the null pointer only through hasText
writeToken(w, token, hasText, text) ==
  IF hasText
  THEN writeUTF(writeByte(w, token + TYPE_STRING), text)
  ELSE writeByte(w, token + TYPE_NULL)

\* the constructor: the magic goes straight to the ostream
BinaryXmlSerializer(os) ==
  [output_stream |-> os \o PROTOCOL_MAGIC_VERSION_0,
   string_pool |-> [s \in {} |-> 0],
   interned_strings |-> <<>>,
   mTagNames |-> <<>>,
   mTagCount |-> 0,
   thrown |-> NoError]

\* a startDocument that writes the header again
startDocument_with_magic(w) ==
  writeByte(write(w, PROTOCOL_MAGIC_VERSION_0), START_DOCUMENT + TYPE_NULL)

startDocument(w) == writeByte(w, START_DOCUMENT + TYPE_NULL)

endDocument(w) == writeByte(w, END_DOCUMENT + TYPE_NULL)

Max(a0, b0) == [a \in Any, b \in Any |-> IF a > b THEN a ELSE b][a0, b0]

\* std::vector::resize: new elements are empty strings
Resize(v0, n) ==
  [v \in Any |-> [i \in 1..n |-> IF i <= Len(v) THEN v[i] ELSE <<>>]][v0]

\* a startTag that writes the record and leaves the tag stack alone
startTag_no_push(w0, name0) ==
  writeInternedUTF(writeByte(w0, START_TAG + TYPE_STRING_INTERNED), name0)

startTag(w0, name0) ==
  [w \in Any, name \in Any |->
    [grown \in Any |->
      writeInternedUTF(
        writeByte([w EXCEPT !.mTagNames = [grown EXCEPT ![w.mTagCount + 1] = name],
                            !.mTagCount = @ + 1],
                  START_TAG + TYPE_STRING_INTERNED), name)
    ][IF w.mTagCount = Len(w.mTagNames)
        THEN Resize(w.mTagNames, w.mTagCount + Max(1, w.mTagCount \div 2))
        ELSE w.mTagNames]
  ][w0, name0]

\* an endTag that writes the token before it checks the stack
endTag_token_first(w0, name0) ==
  [w \in Any, name \in Any |->
    [w1 \in Any |->
      IF w.mTagCount <= 0
      THEN [w1 EXCEPT !.thrown = UnbalancedEnd]
      ELSE IF w.mTagNames[w.mTagCount] # name
           THEN [w1 EXCEPT !.thrown = TagMismatch(w.mTagNames[w.mTagCount], name)]
           ELSE writeInternedUTF([w1 EXCEPT !.mTagCount = @ - 1], name)
    ][writeByte(w, END_TAG + TYPE_STRING_INTERNED)]
  ][w0, name0]

endTag(w0, name0) ==
  [w \in Any, name \in Any |->
    IF w.mTagCount <= 0
    THEN [w EXCEPT !.thrown = UnbalancedEnd]
    ELSE IF w.mTagNames[w.mTagCount] # name
         THEN [w EXCEPT !.thrown = TagMismatch(w.mTagNames[w.mTagCount], name)]
         ELSE writeInternedUTF(
                writeByte([w EXCEPT !.mTagCount = @ - 1],
                          END_TAG + TYPE_STRING_INTERNED), name)
  ][w0, name0]

attribute(w, name, value) ==
  writeUTF(writeInternedUTF(writeByte(w, ATTRIBUTE + TYPE_STRING), name), value)

attributeInterned(w, name, value) ==
  writeInternedUTF(
    writeInternedUTF(writeByte(w, ATTRIBUTE + TYPE_STRING_INTERNED), name), value)

attributeInt(w, name, value) ==
  writeInt(writeInternedUTF(writeByte(w, ATTRIBUTE + TYPE_INT), name), value)

attributeIntHex(w, name, value) ==
  writeInt(writeInternedUTF(writeByte(w, ATTRIBUTE + TYPE_INT_HEX), name), value)

attributeBoolean(w, name, value) ==
  writeInternedUTF(
    writeByte(w, ATTRIBUTE + (IF value THEN TYPE_BOOLEAN_TRUE ELSE TYPE_BOOLEAN_FALSE)),
    name)

\* int64_t and double values are their eight big-endian bytes, float values
\* their four: writeLong emits the bytes from the most significant one
writeLong(w0, value) ==
  [w \in Any |->
    IF w.thrown # NoError THEN w
    ELSE [w EXCEPT !.output_stream = @ \o value]
  ][w0]

\* memcpy of the IEEE-754 bits, then writeInt
writeFloat(w0, value) ==
  [w \in Any |->
    IF w.thrown # NoError THEN w
    ELSE [w EXCEPT !.output_stream = @ \o value]
  ][w0]

writeDouble(w, value) == writeLong(w, value)

attributeBytesHex(w, name, value0) ==
  [value \in Any |->
    IF Len(value) > MAX_UNSIGNED_SHORT
    THEN [w EXCEPT !.thrown = "attributeBytesHex: input size exceeds maximum"]
    ELSE write(writeShort(writeInternedUTF(writeByte(w, ATTRIBUTE + TYPE_BYTES_HEX),
                                           name), Len(value)), value)
  ][value0]

attributeBytesBase64(w, name, value0) ==
  [value \in Any |->
    IF Len(value) > MAX_UNSIGNED_SHORT
    THEN [w EXCEPT !.thrown = "attributeBytesBase64: input size exceeds maximum"]
    ELSE write(writeShort(writeInternedUTF(writeByte(w, ATTRIBUTE + TYPE_BYTES_BASE64),
                                           name), Len(value)), value)
  ][value0]

attributeLong(w, name, value) ==
  writeLong(writeInternedUTF(writeByte(w, ATTRIBUTE + TYPE_LONG), name), value)

attributeLongHex(w, name, value) ==
  writeLong(writeInternedUTF(writeByte(w, ATTRIBUTE + TYPE_LONG_HEX), name), value)

attributeFloat(w, name, value) ==
  writeFloat(writeInternedUTF(writeByte(w, ATTRIBUTE + TYPE_FLOAT), name), value)

attributeDouble(w, name, value) ==
  writeDouble(writeInternedUTF(writeByte(w, ATTRIBUTE + TYPE_DOUBLE), name), value)

text(w, str) == writeToken(w, TEXT, TRUE, str)

cdsect(w, str) == writeToken(w, CDSECT, TRUE, str)

comment(w, str) == writeToken(w, COMMENT, TRUE, str)

processingInstruction(w, target, data0) ==
  [data \in Any |->
    writeToken(w, PROCESSING_INSTRUCTION, TRUE,
               IF data # <<>> THEN target \o <<32>> \o data ELSE target)
  ][data0]

docdecl(w, str) == writeToken(w, DOCDECL, TRUE, str)

ignorableWhitespace(w, str) == writeToken(w, IGNORABLE_WHITESPACE, TRUE, str)

entityRef(w, str) == writeToken(w, ENTITY_REF, TRUE, str)

(***************************************************************************)
(* Text helpers: characters are their byte values.                         *)
(***************************************************************************)
\* '0' + d, the decimal digit character
DigitChar(d) == 48 + d

\* the lowercase hexadecimal digit character of a nibble
HexChar(n0) == [n \in Any |-> IF n < 10 THEN 48 + n ELSE 87 + n][n0]

\* decimal text of a non-negative int
DecNat(n0) ==
  LET F[n \in Nat] == IF n < 10 THEN <<DigitChar(n)>>
                      ELSE Append(F[n \div 10], DigitChar(n % 10))
  IN  F[n0]

\* operator<<(int): decimal text of an int32_t
\* an operator<< for an int on a stream that was left in std::hex (the
\* digits of the magnitude)
RECURSIVE DecInt_hex(_)
DecInt_hex(v0) ==
  [v \in Any |->
    IF v < 0 THEN <<45>> \o DecInt_hex(0 - v)
    ELSE IF v < 16 THEN <<HexChar(v)>>
    ELSE DecInt_hex(v \div 16) \o <<HexChar(v % 16)>>
  ][v0]

DecInt(v0) ==
  [v \in Any |->
    IF v >= 0 THEN DecNat(v)
    ELSE [ld \in Any |->
           [rest \in Any |->
             <<45>> \o (IF rest = 0 THEN <<>> ELSE DecNat(rest))
                    \o <<DigitChar(ld)>>
           ][0 - ((v + ld) \div 10)]
         ][(10 - (v % 10)) % 10]
  ][v0]

\* drops the leading '0' characters, keeping the last one
StripZeros(cs0) ==
  [cs \in Any |->
    SubSeq(cs, CHOOSE k \in 1..Max(Len(cs), 1) :
                 /\ \A j \in 1..(k - 1) : cs[j] = 48
                 /\ k = Len(cs) \/ cs = <<>> \/ cs[k] # 48,
           Len(cs))
  ][cs0]

\* a rendering that keeps the leading zeros
HexOfBytes_padded(bs0) ==
  [bs \in Any |->
    [i \in 1..(2 * Len(bs)) |->
       IF i % 2 = 1 THEN HexChar(bs[(i + 1) \div 2] \div 16)
       ELSE HexChar(bs[i \div 2] % 16)]
  ][bs0]

\* operator<< with std::hex, std::nouppercase on the unsigned value whose
\* big-endian bytes are bs: no prefix, no leading zeros
HexOfBytes(bs0) ==
  [bs \in Any |->
    StripZeros([i \in 1..(2 * Len(bs)) |->
                  IF i % 2 = 1 THEN HexChar(bs[(i + 1) \div 2] \div 16)
                  ELSE HexChar(bs[i \div 2] % 16)])
  ][bs0]

\* division of the unsigned big-endian number bs by 10: <<quotient, remainder>>;
\* rem[i] is the remainder of the number made of the first i bytes
DivMod10(bs0) ==
  [bs \in Any |->
    LET rem[i \in 0..Len(bs)] == IF i = 0 THEN 0 ELSE (rem[i - 1] * 256 + bs[i]) % 10
    IN  << [i \in 1..Len(bs) |-> (rem[i - 1] * 256 + bs[i]) \div 10],
           rem[Len(bs)] >>
  ][bs0]

IsZeroBytes(bs0) == [bs \in Any |-> \A i \in 1..Len(bs) : bs[i] = 0][bs0]

\* decimal text of the unsigned big-endian number bs
DecOfBytes(bs0) ==
  LET F[qr \in Seq(0..255) \X (0..9)] ==
        IF IsZeroBytes(qr[1]) THEN <<DigitChar(qr[2])>>
        ELSE Append(F[DivMod10(qr[1])], DigitChar(qr[2]))
  IN  F[DivMod10(bs0)]

\* two's complement negation of the big-endian number bs, same width: the
\* bytes are inverted and one is added, the carry running through the 255s
Negate(bs0) ==
  [bs \in Any |->
    [last \in Any |->
      [i \in 1..Len(bs) |-> IF i > last THEN 0
                            ELSE IF i = last THEN 256 - bs[i] ELSE 255 - bs[i]]
    ][CHOOSE k \in 0..Len(bs) :
        /\ \A j \in (k + 1)..Len(bs) : bs[j] = 0
        /\ k = 0 \/ bs[k] # 0]
  ][bs0]

\* operator<<(long long): decimal text of the int64_t with two's complement
\* big-endian bytes bs
DecLong(bs0) ==
  [bs \in Any |->
    IF bs[1] >= 128 THEN <<45>> \o DecOfBytes(Negate(bs)) ELSE DecOfBytes(bs)
  ][bs0]

\* is the two's complement number bs equal to -1
IsMinusOne(bs0) == [bs \in Any |-> \A i \in 1..Len(bs) : bs[i] = 255][bs0]

\* an escaping that escapes the '&' of its own replacements again
encode_xml_entities_again(str0) ==
  [str \in Any |->
    LET esc(c) == CASE c = 38 -> <<38, 97, 109, 112, 59>>
                    [] c = 60 -> <<38, 97, 109, 112, 59, 108, 116, 59>>
                    [] c = 62 -> <<38, 97, 109, 112, 59, 103, 116, 59>>
                    [] c = 34 -> <<38, 97, 109, 112, 59, 113, 117, 111, 116, 59>>
                    [] c = 39 -> <<38, 97, 109, 112, 59, 97, 112, 111, 115, 59>>
                    [] OTHER -> <<c>>
        F[i \in 0..Len(str)] == IF i = 0 THEN <<>> ELSE F[i - 1] \o esc(str[i])
    IN  F[Len(str)]
  ][str0]

encode_xml_entities(str0) ==
  [str \in Any |->
    LET esc(c) == CASE c = 38 -> <<38, 97, 109, 112, 59>>
                    [] c = 60 -> <<38, 108, 116, 59>>
                    [] c = 62 -> <<38, 103, 116, 59>>
                    [] c = 34 -> <<38, 113, 117, 111, 116, 59>>
                    [] c = 39 -> <<38, 97, 112, 111, 115, 59>>
                    [] OTHER -> <<c>>
        F[i \in 0..Len(str)] == IF i = 0 THEN <<>> ELSE F[i - 1] \o esc(str[i])
    IN  F[Len(str)]
  ][str0]

base64_chars ==
  [i \in 0..63 |-> IF i < 26 THEN 65 + i
                   ELSE IF i < 52 THEN 97 + (i - 26)
                   ELSE IF i < 62 THEN 48 + (i - 52)
                   ELSE IF i = 62 THEN 43 ELSE 47]

base64_encode(data0) ==
  [data \in Any |->
    LET len == Len(data)
        at(j) == IF j <= len THEN data[j] ELSE 0
        \* the 24-bit triple starting at 1-based index j, as its four sextets
        quad(j0) ==
          [j \in Any |->
            [b0 \in Any, b1 \in Any, b2 \in Any |->
              << base64_chars[b0 \div 4],
                 base64_chars[(b0 % 4) * 16 + (b1 \div 16)],
                 IF j + 1 <= len THEN base64_chars[(b1 % 16) * 4 + (b2 \div 64)]
                 ELSE 61,
                 IF j + 2 <= len THEN base64_chars[b2 % 64] ELSE 61 >>
            ][at(j), at(j + 1), at(j + 2)]
          ][j0]
        F[k \in 0..((len + 2) \div 3)] ==
          IF k = 0 THEN <<>> ELSE F[k - 1] \o quad(3 * (k - 1) + 1)
    IN  F[(len + 2) \div 3]
  ][data0]

bytesToHex(bytes0) ==
  [bytes \in Any |->
    [i \in 1..(2 * Len(bytes)) |->
       IF i % 2 = 1 THEN HexChar(bytes[(i + 1) \div 2] \div 16)
       ELSE HexChar(bytes[i \div 2] % 16)]
  ][bytes0]

(***************************************************************************)
(* FastDataInput over a std::istream.  A reader state d is a record        *)
(*   data, pos        : the bytes of the stream and the get position       *)
(*   eofbit, failbit  : the stream's state bits                            *)
(*   interned_strings : the read-side pool                                 *)
(*   mOut             : the XML text written so far                        *)
(*   thrown           : NoError, or the exception in flight                *)
(*   val              : the value the last read returned                   *)
(***************************************************************************)
ReadByteFailed == "Failed to read byte from stream"
ReadShortFailed == "Failed to read short from stream"
ReadIntFailed == "Failed to read int from stream"
ReadUTFFailed == "Failed to read UTF string from stream"
ReadBytesFailed == "Failed to read bytes from stream"
BadInternIndex == "Invalid interned string index"
\* std::to_string(type) is ToString(type)
UnknownAttributeType(type) == "Unknown attribute type: " \o ToString(type)
BadMagic == "Invalid ABX file format - magic header mismatch"

ReadErrors == {ReadByteFailed, ReadShortFailed, ReadIntFailed, ReadUTFFailed,
               ReadBytesFailed}

good(d0) == [d \in Any |-> ~d.eofbit /\ ~d.failbit][d0]

\* std::istream::read(buf, n): nothing is read from a stream that is not
\* good; a short read sets eofbit and failbit and leaves the position at the end
istream_read(d0, n0) ==
  [d \in Any, n \in Any |->
    IF ~good(d) THEN [d EXCEPT !.failbit = TRUE, !.val = <<>>]
    ELSE IF d.pos + n <= Len(d.data)
         THEN [d EXCEPT !.pos = @ + n, !.val = SubSeq(d.data, d.pos + 1, d.pos + n)]
         ELSE [d EXCEPT !.pos = Len(d.data), !.eofbit = TRUE, !.failbit = TRUE,
                        !.val = SubSeq(d.data, d.pos + 1, Len(d.data))]
  ][d0, n0]

\* std::istream::peek() == EOF, with its effect on the state bits, in val
istream_peek_eof(d0) ==
  [d \in Any |->
    IF ~good(d) THEN [d EXCEPT !.failbit = TRUE, !.val = TRUE]
    ELSE IF d.pos >= Len(d.data) THEN [d EXCEPT !.eofbit = TRUE, !.val = TRUE]
         ELSE [d EXCEPT !.val = FALSE]
  ][d0]

\* FastDataInput::eof(): input_stream.eof() || input_stream.peek() == EOF
eof(d0) ==
  [d \in Any |->
    IF d.eofbit THEN [d EXCEPT !.val = TRUE] ELSE istream_peek_eof(d)
  ][d0]

\* FastDataInput::tellg(): -1 from a failed stream
tellg(d0) ==
  [d \in Any |->
    IF ~good(d) THEN [d EXCEPT !.failbit = TRUE, !.val = 0 - 1]
    ELSE [d EXCEPT !.val = d.pos]
  ][d0]

\* a seekg that goes to the byte before the position it is given
seekg_one_back(d0, pos0) ==
  [d1 \in Any, pos \in Any |->
    IF d1.failbit THEN d1
    ELSE IF pos - 1 < 0 \/ pos - 1 > Len(d1.data) THEN [d1 EXCEPT !.failbit = TRUE]
         ELSE [d1 EXCEPT !.pos = pos - 1]
  ][[d0 EXCEPT !.eofbit = FALSE], pos0]

\* FastDataInput::seekg(): eofbit is cleared first; a failed stream is not moved
seekg(d0, pos0) ==
  [d1 \in Any, pos \in Any |->
    IF d1.failbit THEN d1
    ELSE IF pos < 0 \/ pos > Len(d1.data) THEN [d1 EXCEPT !.failbit = TRUE]
         ELSE [d1 EXCEPT !.pos = pos]
  ][[d0 EXCEPT !.eofbit = FALSE], pos0]

readByte(d0) ==
  [d \in Any |->
    IF d.thrown # NoError THEN d
    ELSE [r \in Any |->
           IF r.failbit THEN [r EXCEPT !.thrown = ReadByteFailed]
           ELSE [r EXCEPT !.val = r.val[1]]
         ][istream_read(d, 1)]
  ][d0]

readShort(d0) ==
  [d \in Any |->
    IF d.thrown # NoError THEN d
    ELSE [r \in Any |->
           IF r.failbit THEN [r EXCEPT !.thrown = ReadShortFailed]
           ELSE [r EXCEPT !.val = r.val[1] * 256 + r.val[2]]
         ][istream_read(d, 2)]
  ][d0]

\* the int32_t with big-endian two's complement bytes bs
IntOfBytes(bs0) ==
  [bs \in Any |->
    (IF bs[1] >= 128 THEN bs[1] - 256 ELSE bs[1]) * 16777216
      + bs[2] * 65536 + bs[3] * 256 + bs[4]
  ][bs0]

readInt(d0) ==
  [d \in Any |->
    IF d.thrown # NoError THEN d
    ELSE [r \in Any |->
           IF r.failbit THEN [r EXCEPT !.thrown = ReadIntFailed]
           ELSE [r EXCEPT !.val = IntOfBytes(r.val)]
         ][istream_read(d, 4)]
  ][d0]

\* eight readByte calls, most significant byte first
RECURSIVE readLongFrom(_, _, _)
readLongFrom(d, i, acc) ==
  [r \in Any |->
    IF r.thrown # NoError THEN r
    ELSE IF i = 1 THEN [r EXCEPT !.val = Append(acc, r.val)]
         ELSE readLongFrom(r, i - 1, Append(acc, r.val))
  ][readByte(d)]

readLong(d0) ==
  [d \in Any |-> IF d.thrown # NoError THEN d ELSE readLongFrom(d, 8, <<>>)][d0]

\* the float's four bytes, read through readInt
readFloat(d) ==
  [r \in Any |->
    IF r.thrown # NoError THEN r ELSE [r EXCEPT !.val = IntBytes(r.val)]
  ][readInt(d)]

readDouble(d) == readLong(d)

readUTF(d) ==
  [l \in Any |->
    IF l.thrown # NoError THEN l
    ELSE [r \in Any |->
           IF r.failbit THEN [r EXCEPT !.thrown = ReadUTFFailed] ELSE r
         ][istream_read(l, l.val)]
  ][readShort(d)]

\* a reader that takes a reference to a string it does not know for the
\* empty string
readInternedUTF_unchecked(d) ==
  [i \in Any |->
    IF i.thrown # NoError THEN i
    ELSE IF i.val = 65535
         THEN [r \in Any |->
                IF r.thrown # NoError THEN r
                ELSE [r EXCEPT !.interned_strings = Append(@, r.val)]
              ][readUTF(i)]
         ELSE IF i.val >= Len(i.interned_strings)
              THEN [i EXCEPT !.val = <<>>]
              ELSE [i EXCEPT !.val = i.interned_strings[i.val + 1]]
  ][readShort(d)]

\* a reader that forgets the strings it is introduced to
readInternedUTF_no_push(d) ==
  [i \in Any |->
    IF i.thrown # NoError THEN i
    ELSE IF i.val = 65535
         THEN readUTF(i)
         ELSE IF i.val >= Len(i.interned_strings)
              THEN [i EXCEPT !.thrown = BadInternIndex]
              ELSE [i EXCEPT !.val = i.interned_strings[i.val + 1]]
  ][readShort(d)]

\* a reader that puts a new string at the front of its pool
readInternedUTF_at_front(d) ==
  [i \in Any |->
    IF i.thrown # NoError THEN i
    ELSE IF i.val = 65535
         THEN [r \in Any |->
                IF r.thrown # NoError THEN r
                ELSE [r EXCEPT !.interned_strings = <<r.val>> \o @]
              ][readUTF(i)]
         ELSE IF i.val >= Len(i.interned_strings)
              THEN [i EXCEPT !.thrown = BadInternIndex]
              ELSE [i EXCEPT !.val = i.interned_strings[i.val + 1]]
  ][readShort(d)]

readInternedUTF(d) ==
  [i \in Any |->
    IF i.thrown # NoError THEN i
    ELSE IF i.val = 65535
         THEN [r \in Any |->
                IF r.thrown # NoError THEN r
                ELSE [r EXCEPT !.interned_strings = Append(@, r.val)]
              ][readUTF(i)]
         ELSE IF i.val >= Len(i.interned_strings)
              THEN [i EXCEPT !.thrown = BadInternIndex]
              ELSE [i EXCEPT !.val = i.interned_strings[i.val + 1]]
  ][readShort(d)]

readBytes(d0, length) ==
  [d \in Any |->
    IF d.thrown # NoError THEN d
    ELSE [r \in Any |->
           IF r.failbit THEN [r EXCEPT !.thrown = ReadBytesFailed] ELSE r
         ][istream_read(d, length)]
  ][d0]

\* mOut << chars
emit(d0, chars) ==
  [d \in Any |->
    IF d.thrown # NoError THEN d ELSE [d EXCEPT !.mOut = @ \o chars]
  ][d0]

\* the value a read returned; nothing is returned by a read that threw
strval(r0) == [r \in Any |-> IF r.thrown = NoError THEN r.val ELSE <<>>][r0]
intval(r0) == [r \in Any |-> IF r.thrown = NoError THEN r.val ELSE 0][r0]

(***************************************************************************)
(* Unbounded naturals for the IEEE-754 conversions (strtof, operator<<     *)
(* of a float or double): little-endian sequences of base-16 digits with   *)
(* no leading zero digit, <<>> being 0.                                    *)
(***************************************************************************)
BigNorm(a0) ==
  [a \in Any |->
    SubSeq(a, 1, CHOOSE n \in 0..Len(a) :
                   /\ \A j \in (n + 1)..Len(a) : a[j] = 0
                   /\ n = 0 \/ a[n] # 0)
  ][a0]

BigFromInt(n0) ==
  LET F[n \in Nat] == IF n = 0 THEN <<>> ELSE <<n % 16>> \o F[n \div 16]
  IN  F[n0]

BigToInt(a0) ==
  [a \in Any |->
    LET F[i \in 1..(Len(a) + 1)] == IF i > Len(a) THEN 0 ELSE a[i] + 16 * F[i + 1]
    IN  F[1]
  ][a0]

\* a * s + c for ints 0 <= s, c < 2^26: digit by digit from the lowest, carry
\* being what the digits before the i-th left
BigMulAdd(a0, s0, c) ==
  [a \in Any, s \in Any |->
    LET F[i \in Nat, carry \in Nat, done \in Seq(0..15)] ==
          IF i > Len(a) THEN BigNorm(done \o BigFromInt(carry))
          ELSE F[i + 1, (a[i] * s + carry) \div 16,
                 Append(done, (a[i] * s + carry) % 16)]
    IN  F[1, c, <<>>]
  ][a0, s0]

BigMulSmall(a, s) == BigMulAdd(a, s, 0)

\* a * 10^k, seven decimal places at a time
BigMulPow10(a, k) ==
  LET F[acc \in Seq(0..15), i \in Nat] ==
        IF i = 0 THEN acc
        ELSE IF i >= 7 THEN F[BigMulSmall(acc, 10000000), i - 7]
             ELSE F[BigMulSmall(acc, 10), i - 1]
  IN  F[a, k]

\* a * 2^k
BigShl(a0, k0) ==
  [a \in Any, k \in Any |->
    IF a = <<>> THEN <<>>
    ELSE [i \in 1..(k \div 4) |-> 0]
           \o BigMulSmall(a, CASE k % 4 = 0 -> 1 [] k % 4 = 1 -> 2 [] k % 4 = 2 -> 4
                               [] OTHER -> 8)
  ][a0, k0]

\* floor(a / 2^k)
BigShr(a0, k0) ==
  [a \in Any, k \in Any |->
    [whole \in Any, p \in Any |->
      BigNorm([i \in 1..Len(whole) |->
                 (whole[i] \div p)
                   + (IF i < Len(whole) THEN (whole[i + 1] % p) * (16 \div p)
                      ELSE 0)])
    ][IF k \div 4 >= Len(a) THEN <<>>
        ELSE SubSeq(a, (k \div 4) + 1, Len(a)),
      CASE k % 4 = 0 -> 1 [] k % 4 = 1 -> 2 [] k % 4 = 2 -> 4
        [] OTHER -> 8]
  ][a0, k0]

\* -1, 0, 1 as a < b, a = b, a > b: the longer number is the greater, and of
\* two of one length the one with the greater digit where they first differ
\* from the top
BigCmp(a0, b0) ==
  [a \in Any, b \in Any |->
    IF Len(a) < Len(b) THEN 0 - 1
    ELSE IF Len(a) > Len(b) THEN 1
    ELSE IF \A i \in 1..Len(a) : a[i] = b[i] THEN 0
    ELSE [i \in Any |->
           IF a[i] < b[i] THEN 0 - 1 ELSE 1
         ][CHOOSE i \in 1..Len(a) :
             /\ a[i] # b[i]
             /\ \A j \in (i + 1)..Len(a) : a[j] = b[j]]
  ][a0, b0]

\* number of binary digits of a
BigBitLen(a0) ==
  [a \in Any |->
    IF a = <<>> THEN 0
    ELSE 4 * (Len(a) - 1)
           + (CASE a[Len(a)] >= 8 -> 4 [] a[Len(a)] >= 4 -> 3 [] a[Len(a)] >= 2 -> 2
                [] OTHER -> 1)
  ][a0]

\* the number with the big-endian bytes bs
BigFromBytes(bs0) ==
  [bs \in Any |->
    BigNorm([i \in 1..(2 * Len(bs)) |->
               IF i % 2 = 1 THEN bs[Len(bs) - ((i - 1) \div 2)] % 16
               ELSE bs[Len(bs) - ((i - 1) \div 2)] \div 16])
  ][bs0]

\* the w big-endian bytes of a mod 2^(8w)
BigToBytes(a0, w) ==
  [a \in Any |->
    [i \in 1..w |->
       (IF 2 * (w - i) + 1 <= Len(a) THEN a[2 * (w - i) + 1] ELSE 0)
         + 16 * (IF 2 * (w - i) + 2 <= Len(a) THEN a[2 * (w - i) + 2] ELSE 0)]
  ][a0]

\* the number with the decimal digit characters cs
BigFromDecimal(cs0) ==
  [cs \in Any |->
    LET F[i \in Nat, acc \in Seq(0..15)] ==
          IF i > Len(cs) THEN acc ELSE F[i + 1, BigMulAdd(acc, 10, cs[i] - 48)]
    IN  F[1, <<>>]
  ][cs0]

\* the number with the hexadecimal digit characters cs
HexDigitValue(c0) ==
  [c \in Any |->
    IF c >= 48 /\ c <= 57 THEN c - 48
    ELSE IF c >= 97 THEN c - 87 ELSE c - 55
  ][c0]

BigFromHex(cs0) ==
  [cs \in Any |->
    BigNorm([i \in 1..Len(cs) |-> HexDigitValue(cs[Len(cs) + 1 - i])])
  ][cs0]

\* the largest q in lo .. hi-1 with q * b <= a, given lo * b <= a < hi * b
BigQuotient(a0, b0, lo0, hi0) ==
  [a \in Any, b \in Any |->
    LET le(mid) == BigCmp(BigMulSmall(b, mid), a) <= 0
        Q[lo \in Nat, hi \in Nat] ==
          IF hi - lo <= 1 THEN lo
          ELSE IF le(lo + ((hi - lo) \div 2))
               THEN Q[lo + ((hi - lo) \div 2), hi]
               ELSE Q[lo, lo + ((hi - lo) \div 2)]
    IN  Q[lo0, hi0]
  ][a0, b0]

\* a / b rounded to the nearest integer, ties to even, the floor being in lo .. hi-1
BigDivRound(a0, b0, lo, hi) ==
  [a \in Any, b \in Any |->
    [q \in Any |->
      [c \in Any |->
        IF c > 0 \/ (c = 0 /\ q % 2 = 1) THEN q + 1 ELSE q
      ][BigCmp(BigMulSmall(a, 2), BigMulSmall(b, 2 * q + 1))]
    ][BigQuotient(a, b, lo, hi)]
  ][a0, b0]

(***************************************************************************)
(* std::stof on a string is_float accepts: optional '-', digits with one   *)
(* '.'.  The result is [thrown, val]: val the four bytes of the nearest    *)
(* binary32 (round to nearest, ties to even).  Such a string has fewer     *)
(* than 20 characters here, so the value neither overflows nor underflows. *)
(***************************************************************************)
InvalidArgument == "invalid_argument"
OutOfRange == "out_of_range"

IndexOf(str0, c0) ==
  [str \in Any, c \in Any |->
    IF \E i \in 1..Len(str) : str[i] = c
    THEN CHOOSE i \in 1..Len(str) : str[i] = c /\ \A j \in 1..(i - 1) : str[j] # c
    ELSE 0
  ][str0, c0]

\* the binary32 nearest to n / 10^k, n > 0
FloatBytes(neg, n0, k) ==
  [n \in Any, t \in Any |->
    [e0 \in Any |->
      \* 2^e0 * t <= n
      [fits \in Any |->
        [e \in Any |->
          [m0 \in Any |->
            [ex \in Any, frac \in Any |->
              << (IF neg THEN 128 ELSE 0) + (ex \div 2),
                 (ex % 2) * 128 + (frac \div 65536),
                 (frac \div 256) % 256,
                 frac % 256 >>
            ][(IF m0 = 16777216 THEN e + 1 ELSE e) + 127,
              (IF m0 = 16777216 THEN 8388608 ELSE m0) - 8388608]
          ][BigDivRound(BigShl(n, Max(23 - e, 0)),
              BigShl(t, Max(e - 23, 0)),
              8388608, 16777216)]
        ][IF fits THEN e0 ELSE e0 - 1]
      ][BigCmp(BigShl(t, Max(e0, 0)), BigShl(n, Max(0 - e0, 0))) <= 0]
    ][BigBitLen(n) - BigBitLen(t)]
  ][n0, BigMulPow10(<<1>>, k)]

stof(str0) ==
  [str \in Any |->
    [neg \in Any |->
      [body \in Any |->
        [dot \in Any |->
          [digits \in Any |->
            [n \in Any |->
              IF digits = <<>> THEN [thrown |-> InvalidArgument, val |-> <<>>]
              ELSE IF n = <<>>
                   THEN [thrown |-> NoError,
                         val |-> <<IF neg THEN 128 ELSE 0, 0, 0, 0>>]
                   ELSE [thrown |-> NoError,
                         val |-> FloatBytes(neg, n,
                                   IF dot = 0 THEN 0 ELSE Len(body) - dot)]
            ][BigFromDecimal(digits)]
          ][IF dot = 0 THEN body
              ELSE SubSeq(body, 1, dot - 1)
              \o SubSeq(body, dot + 1, Len(body))]
        ][IndexOf(body, 46)]
      ][IF neg THEN Tail(str) ELSE str]
    ][str # <<>> /\ str[1] = 45]
  ][str0]

(***************************************************************************)
(* operator<< of a float or double (printf "%.6g"), and the casts of       *)
(* processAttribute.  A finite non-zero value is m * 2^exp2.               *)
(***************************************************************************)
\* what a float-to-integer cast of an unrepresentable value yields: the
\* conversion is undefined; x86 gives the minimum, AArch64 saturates
UBOutcomes == {"indefinite", "saturate"}

StripTrailingZeros(cs0) ==
  [cs \in Any |->
    SubSeq(cs, 1, CHOOSE n \in 0..Len(cs) :
                    /\ \A j \in (n + 1)..Len(cs) : cs[j] = 48
                    /\ n = 0 \/ cs[n] # 48)
  ][cs0]

\* "%.6g" of m / 2^k, which is not an integer
FormatG6(m0, k0) ==
  [m \in Any, k \in Any |->
    [x0 \in Any |->
      \* ge10[x]: 10^x <= m / 2^k
      [ge10 \in Any |->
        [x1 \in Any |->
          [d0 \in Any |->
            [x \in Any, ds \in Any |->
              [sig \in Any, ax \in Any |->
                IF x < 0 - 4 \/ x >= 6
                THEN <<sig[1]>> \o (IF Len(sig) > 1 THEN <<46>> \o Tail(sig) ELSE <<>>)
                       \o <<101, IF x < 0 THEN 45 ELSE 43>>
                       \o (IF ax < 10 THEN <<48>> ELSE <<>>) \o DecNat(ax)
                ELSE IF x >= 0
                     THEN SubSeq(ds, 1, x + 1)
                            \o (IF Len(sig) > x + 1
                                THEN <<46>> \o SubSeq(sig, x + 2, Len(sig))
                                ELSE <<>>)
                     ELSE <<48, 46>> \o [i \in 1..(0 - x - 1) |-> 48] \o sig
              ][StripTrailingZeros(ds), IF x < 0 THEN 0 - x ELSE x]
            ][IF d0 = 1000000 THEN x1 + 1 ELSE x1, DecNat(IF d0 = 1000000 THEN 100000 ELSE d0)]
          ][BigDivRound(BigMulPow10(m, Max(5 - x1, 0)),
              BigShl(BigMulPow10(<<1>>, Max(x1 - 5, 0)), k),
              100000, 1000000)]
        ][IF ge10[x0 + 1] THEN x0 + 1
            ELSE IF ge10[x0] THEN x0 ELSE x0 - 1]
      ][[x \in {x0, x0 + 1} |->
          BigCmp(BigShl(BigMulPow10(<<1>>, Max(x, 0)), k),
          BigMulPow10(m, Max(0 - x, 0))) <= 0]]
    ][((BigBitLen(m) - k - 1) * 30103) \div 100000]
  ][m0, k0]

\* the text processAttribute writes for a floating-point value with sign neg,
\* biased exponent field e, fraction f (a Big), fracBits fraction bits, the
\* exponent bias, and a cast to a signed integer of w bytes
FloatingText(neg0, e0, f0, fracBits0, bias0, w0, ub) ==
  [neg \in Any, e \in Any, f \in Any, fracBits \in Any, bias \in Any, w \in Any |->
    [sgn \in Any, m \in Any, exp2 \in Any |->
        \* the implicit leading one of a normal number is bit fracBits
      IF e = 2 * bias + 1
      THEN sgn \o (IF f = <<>> THEN <<105, 110, 102>> ELSE <<110, 97, 110>>)
      ELSE IF m = <<>> THEN <<48, 46, 48>>
      ELSE
        \* floor(value), and floor(value) * 2^|exp2|
        [whole \in Any |->
          [back \in Any |->
            IF exp2 >= 0 \/ back = m
            THEN [v \in Any, limit \in Any |->
                   [c \in Any |->
                     [fitting \in Any, low \in Any |->
                       (IF fitting THEN sgn ELSE IF low THEN <<45>> ELSE <<>>)
                         \o DecOfBytes(IF fitting THEN BigToBytes(v, w)
                                       ELSE IF low THEN BigToBytes(limit, w)
                                       ELSE [i \in 1..w |->
                                               IF i = 1 THEN 127 ELSE 255])
                         \o <<46, 48>>
                     ][c < 0 \/ (c = 0 /\ neg), ub = "indefinite" \/ neg]
                   ][BigCmp(v, limit)]
                 ][IF exp2 >= 0 THEN back ELSE whole,
                   [i \in 1..(2 * w) |-> IF i = 2 * w THEN 8 ELSE 0]]
            ELSE sgn \o FormatG6(m, 0 - exp2)
          ][BigShl(whole, IF exp2 >= 0 THEN exp2 ELSE 0 - exp2)]
        ][IF exp2 >= 0 THEN m ELSE BigShr(m, 0 - exp2)]
    ][IF neg THEN <<45>> ELSE <<>>,
      IF e = 0 THEN f
        ELSE [i \in 1..((fracBits \div 4) + 1) |->
        (IF i <= Len(f) THEN f[i] ELSE 0)
        + (IF i = (fracBits \div 4) + 1
        THEN (IF fracBits % 4 = 3 THEN 8 ELSE 1) ELSE 0)],
      (IF e = 0 THEN 1 ELSE e) - bias - fracBits]
  ][neg0, e0, f0, fracBits0, bias0, w0]

\* float with bytes bs: value == floor(value) && isfinite(value) ?
\* static_cast<int>(value) << ".0" : value
FloatText(bs0, ub) ==
  [bs \in Any |->
    FloatingText(bs[1] >= 128,
                 (bs[1] % 128) * 2 + (bs[2] \div 128),
                 BigFromBytes(<<bs[2] % 128, bs[3], bs[4]>>),
                 23, 127, 4, ub)
  ][bs0]

\* double with bytes bs, cast to long long
DoubleText(bs0, ub) ==
  [bs \in Any |->
    FloatingText(bs[1] >= 128,
                 (bs[1] % 128) * 16 + (bs[2] \div 16),
                 BigFromBytes(<<bs[2] % 16>> \o SubSeq(bs, 3, 8)),
                 52, 1023, 8, ub)
  ][bs0]

(***************************************************************************)
(* BinaryXmlDeserializer.                                                  *)
(***************************************************************************)
\* token & 0x0F and token & 0xF0
CommandOf(token) == token % 16
TypeOf(token0) == [token \in Any |-> token - (token % 16)][token0]

\* processAttribute(token); ub resolves a cast the C++ standard leaves undefined
processAttribute(d, token, ub) ==
  [type \in Any, n \in Any |->
    [d1 \in Any |->
      [value \in Any |->
        emit(value, <<34>>)
      ][CASE type = TYPE_STRING ->
           [r \in Any |->
               emit(r, encode_xml_entities(strval(r)))
           ][readUTF(d1)]
        [] type = TYPE_STRING_INTERNED ->
           [r \in Any |->
               emit(r, encode_xml_entities(strval(r)))
           ][readInternedUTF(d1)]
        [] type = TYPE_INT ->
           [r \in Any |-> emit(r, DecInt(intval(r)))][readInt(d1)]
        [] type = TYPE_INT_HEX ->
           [r \in Any |->
               emit(r, IF intval(r) = 0 - 1 THEN DecInt(intval(r))
                       ELSE HexOfBytes(IntBytes(intval(r))))
           ][readInt(d1)]
        [] type = TYPE_LONG ->
           [r \in Any |->
               IF r.thrown # NoError THEN r ELSE emit(r, DecLong(r.val))
           ][readLong(d1)]
        [] type = TYPE_LONG_HEX ->
           [r \in Any |->
               IF r.thrown # NoError THEN r
               ELSE emit(r, IF IsMinusOne(r.val) THEN DecLong(r.val)
                       ELSE HexOfBytes(r.val))
           ][readLong(d1)]
        [] type = TYPE_FLOAT ->
           [r \in Any |->
               IF r.thrown # NoError THEN r ELSE emit(r, FloatText(r.val, ub))
           ][readFloat(d1)]
        [] type = TYPE_DOUBLE ->
           [r \in Any |->
               IF r.thrown # NoError THEN r ELSE emit(r, DoubleText(r.val, ub))
           ][readDouble(d1)]
        [] type = TYPE_BOOLEAN_TRUE -> emit(d1, <<116, 114, 117, 101>>)
        [] type = TYPE_BOOLEAN_FALSE -> emit(d1, <<102, 97, 108, 115, 101>>)
        [] type = TYPE_BYTES_HEX ->
           [l \in Any |->
             [r \in Any |->
                 emit(r, bytesToHex(strval(r)))
             ][readBytes(l, intval(l))]
           ][readShort(d1)]
        [] type = TYPE_BYTES_BASE64 ->
           [l \in Any |->
             [r \in Any |->
                 emit(r, base64_encode(strval(r)))
             ][readBytes(l, intval(l))]
           ][readShort(d1)]
        [] OTHER ->
             IF d1.thrown # NoError THEN d1
             ELSE [d1 EXCEPT !.thrown = UnknownAttributeType(type)]]
    ][emit(n, <<32>> \o strval(n) \o <<61, 34>>)]
  ][TypeOf(token), readInternedUTF(d)]

\* a constructor that does not compare the four bytes with the magic
BinaryXmlDeserializer_unchecked(is) ==
  [d0 \in Any |->
    [b4 \in Any |->
      IF b4.thrown # NoError THEN [b4 EXCEPT !.status = "failed"] ELSE b4
    ][readByte(readByte(readByte(readByte(d0))))]
  ][[data |-> is, pos |-> 0, eofbit |-> FALSE, failbit |-> FALSE,
      interned_strings |-> <<>>, mOut |-> <<>>, cerr |-> <<>>, thrown |-> NoError,
      val |-> 0, returned |-> FALSE, status |-> "constructed"]]

\* the constructor: four readByte calls, then the comparison with the magic;
\* status is "failed" when the constructor threw.  cerr is what the
\* deserializer wrote to std::cerr.
BinaryXmlDeserializer(is) ==
  [d0 \in Any |->
  [b1 \in Any |->
    [b2 \in Any |->
      [b3 \in Any |->
        [b4 \in Any |->
          IF b4.thrown # NoError THEN [b4 EXCEPT !.status = "failed"]
          ELSE IF <<b1.val, b2.val, b3.val, b4.val>> # PROTOCOL_MAGIC_VERSION_0
               THEN [b4 EXCEPT !.thrown = BadMagic, !.status = "failed"]
               ELSE b4
        ][readByte(b3)]
      ][readByte(b2)]
    ][readByte(b1)]
  ][readByte(d0)]
  ][[data |-> is, pos |-> 0, eofbit |-> FALSE, failbit |-> FALSE,
      interned_strings |-> <<>>, mOut |-> <<>>, cerr |-> <<>>, thrown |-> NoError,
      val |-> 0, returned |-> FALSE, status |-> "constructed"]]

\* the attribute loop that follows a START_TAG name: every exception thrown
\* while an attribute is read is caught, the stream is sought back to the
\* token and the loop is left
RECURSIVE attributeLoop(_, _)
attributeLoop(d, ub) ==
  [p \in Any |->
    [pos \in Any, t \in Any |->
      IF t.thrown # NoError
      THEN seekg([t EXCEPT !.thrown = NoError], pos)
      ELSE IF CommandOf(t.val) = ATTRIBUTE
           THEN [a \in Any |->
                  IF a.thrown # NoError
                  THEN seekg([a EXCEPT !.thrown = NoError], pos)
                  ELSE attributeLoop(a, ub)
                ][processAttribute(t, t.val, ub)]
           ELSE seekg(t, pos)
    ][p.val, readByte(p)]
  ][tellg(d)]

\* a string record: the payload is read only if the type nibble is STRING
\* mOut << before << mIn->readUTF() << after: the operands of << are
\* evaluated from left to right, so before is written when readUTF is
\* called and stays in mOut when readUTF throws
stringRecord(d, type, before, after, escape, elideEmpty) ==
  IF type # TYPE_STRING THEN d
  ELSE [r \in Any |->
         IF elideEmpty /\ r.thrown = NoError /\ r.val = <<>> THEN r
         ELSE emit(r, (IF escape THEN encode_xml_entities(strval(r))
                       ELSE strval(r))
                        \o after)
       ][readUTF(emit(d, before))]

\* the body of the try block of deserialize(): one token and its payload.
\* The result carries returned = TRUE when END_DOCUMENT was read.
dispatchToken(d, ub) ==
  [t \in Any |->
    [command \in Any, type \in Any, go \in Any |->
      IF t.thrown # NoError THEN go
      ELSE CASE command = START_DOCUMENT -> go
             [] command = END_DOCUMENT -> [go EXCEPT !.returned = TRUE]
             [] command = START_TAG ->
                  [n \in Any |->
                    [o \in Any |->
                      IF o.thrown # NoError THEN o
                      ELSE emit(attributeLoop(o, ub), <<62>>)
                    ][emit(n, <<60>> \o strval(n))]
                  ][readInternedUTF(go)]
             [] command = END_TAG ->
                  [n \in Any |->
                    emit(n, <<60, 47>> \o strval(n) \o <<62>>)
                  ][readInternedUTF(go)]
             [] command = TEXT -> stringRecord(go, type, <<>>, <<>>, TRUE, TRUE)
             [] command = CDSECT ->
                  stringRecord(go, type, <<60, 33, 91, 67, 68, 65, 84, 65, 91>>,
                               <<93, 93, 62>>, FALSE, FALSE)
             [] command = COMMENT ->
                  stringRecord(go, type, <<60, 33, 45, 45>>, <<45, 45, 62>>,
                               FALSE, FALSE)
             [] command = PROCESSING_INSTRUCTION ->
                  stringRecord(go, type, <<60, 63>>, <<63, 62>>, FALSE, FALSE)
             [] command = DOCDECL ->
                  stringRecord(go, type, <<60, 33, 68, 79, 67, 84, 89, 80, 69, 32>>,
                               <<62>>, FALSE, FALSE)
             [] command = ENTITY_REF ->
                  stringRecord(go, type, <<38>>, <<59>>, FALSE, FALSE)
             [] command = IGNORABLE_WHITESPACE ->
                  stringRecord(go, type, <<>>, <<>>, FALSE, FALSE)
             [] OTHER -> go
    ][CommandOf(intval(t)), TypeOf(intval(t)), [t EXCEPT !.returned = FALSE]]
  ][readByte(d)]

\* the loop of deserialize(): one token per turn until the stream is at its
\* end, END_DOCUMENT returns, or an exception leaves the try block
RECURSIVE deserializeLoop(_, _)
deserializeLoop(d, ub) ==
  [c \in Any |->
    IF c.val THEN c
    ELSE [b \in Any |->
           IF b.thrown # NoError \/ b.returned THEN b
           ELSE deserializeLoop(b, ub)
         ][dispatchToken(c, ub)]
  ][eof(d)]

\* deserialize(): the catch clause ends the call normally when the stream is
\* at its end and rethrows otherwise
deserialize(d, ub) ==
  [b \in Any |->
    IF b.thrown = NoError THEN [b EXCEPT !.status = "returned"]
    ELSE [e \in Any |->
           IF e.val THEN [e EXCEPT !.thrown = NoError, !.status = "returned"]
           ELSE [e EXCEPT !.status = "failed"]
         ][eof(b)]
  ][deserializeLoop(d, ub)]

\* one turn of the loop of deserialize(): the test of the loop, the try block
\* and the catch clause.  status is "decoding" when the loop goes on.
deserializeTurn(d, ub) ==
  [c \in Any |->
    IF c.val THEN [c EXCEPT !.status = "returned"]
    ELSE [b \in Any |->
           IF b.thrown # NoError
           THEN [e \in Any |->
                  IF e.val THEN [e EXCEPT !.thrown = NoError, !.status = "returned"]
                  ELSE [e EXCEPT !.status = "failed"]
                ][eof(b)]
           ELSE IF b.returned THEN [b EXCEPT !.status = "returned"]
                ELSE [b EXCEPT !.status = "decoding"]
         ][dispatchToken(c, ub)]
  ][eof(d)]

(***************************************************************************)
(* XML parsing layer: the predicates of the type inference, std::stoi and  *)
(* std::stoll, and the walk over the DOM.  Strings are ASCII.              *)
(***************************************************************************)
isdigit(c0) == [c \in Any |-> c >= 48 /\ c <= 57][c0]
isxdigit(c0) ==
  [c \in Any |-> isdigit(c) \/ (c >= 97 /\ c <= 102) \/ (c >= 65 /\ c <= 70)][c0]
isspace(c0) == [c \in Any |-> c = 32 \/ (c >= 9 /\ c <= 13)][c0]

is_numeric(str0) ==
  [str \in Any |->
    IF str = <<>> THEN FALSE
    ELSE \A i \in ((IF str[1] = 45 THEN 1 ELSE 0) + 1)..Len(str) : isdigit(str[i])
  ][str0]

is_hex_number(str0) ==
  [str \in Any |->
    IF Len(str) < 3 THEN FALSE
    ELSE IF SubSeq(str, 1, 2) # <<48, 120>> /\ SubSeq(str, 1, 2) # <<48, 88>>
         THEN FALSE
         ELSE \A i \in 3..Len(str) : isxdigit(str[i])
  ][str0]

is_float(str0) ==
  [str \in Any |->
    IF str = <<>> THEN FALSE
    ELSE [rest \in Any |->
           /\ \A i \in rest : str[i] = 46 \/ isdigit(str[i])
           /\ Cardinality({i \in rest : str[i] = 46}) = 1
         ][((IF str[1] = 45 THEN 1 ELSE 0) + 1)..Len(str)]
  ][str0]

is_boolean(str0) ==
  [str \in Any |->
    str = <<116, 114, 117, 101>> \/ str = <<102, 97, 108, 115, 101>>
  ][str0]

is_hex_string(str0) ==
  [str \in Any |->
    IF Len(str) % 2 # 0 THEN FALSE
    ELSE \A i \in 1..Len(str) : isxdigit(str[i])
  ][str0]

\* a predicate for which only the blank is whitespace
is_whitespace_only_blank(str0) ==
  [str \in Any |-> \A i \in 1..Len(str) : str[i] = 32][str0]

is_whitespace_only(str0) ==
  [str \in Any |-> \A i \in 1..Len(str) : isspace(str[i])][str0]

\* the digits std::strtol and std::strtoll convert: after an optional sign
\* and, in base 16, an optional 0x prefix, the longest run of digits
Digits(str0, base0) ==
  [str \in Any, base \in Any |->
    [s1 \in Any |->
      [s2 \in Any |->
        LET ok(c) == IF base = 16 THEN isxdigit(c) ELSE isdigit(c)
        IN  [neg |-> str # <<>> /\ str[1] = 45,
             digits |-> SubSeq(s2, 1,
                          CHOOSE k \in 0..Len(s2) :
                            /\ \A i \in 1..k : ok(s2[i])
                            /\ (k < Len(s2) => ~ok(s2[k + 1])))]
      ][IF /\ base = 16
          /\ Len(s1) >= 3
          /\ s1[1] = 48
          /\ s1[2] \in {120, 88}
          /\ isxdigit(s1[3])
          THEN SubSeq(s1, 3, Len(s1)) ELSE s1]
    ][IF str # <<>> /\ str[1] \in {43, 45} THEN Tail(str) ELSE str]
  ][str0, base0]

\* a conversion that keeps what strtol returns for a number out of range
stoi_saturating(str, base0) ==
  [base \in Any |->
    [p \in Any |->
      [n \in Any |->
        [c \in Any |->
          IF p.digits = <<>> THEN [thrown |-> InvalidArgument, val |-> 0]
          ELSE IF c >= 0
               THEN [thrown |-> NoError,
                     val |-> IF p.neg THEN (0 - 2147483647) - 1 ELSE 2147483647]
               ELSE [thrown |-> NoError,
                     val |-> IF p.neg THEN 0 - BigToInt(n) ELSE BigToInt(n)]
        ][BigCmp(n, BigShl(<<1>>, 31))]
      ][IF base = 16 THEN BigFromHex(p.digits)
          ELSE BigFromDecimal(p.digits)]
    ][Digits(str, base)]
  ][base0]

\* std::stoi(str, nullptr, base): val is the int
stoi(str, base0) ==
  [base \in Any |->
    [p \in Any |->
      [n \in Any |->
        \* n compared with 2^31
        [c \in Any |->
          IF p.digits = <<>> THEN [thrown |-> InvalidArgument, val |-> 0]
          ELSE IF c > 0 \/ (c = 0 /\ ~p.neg)
               THEN [thrown |-> OutOfRange, val |-> 0]
               ELSE IF c = 0
                    THEN [thrown |-> NoError, val |-> (0 - 2147483647) - 1]
                    ELSE [thrown |-> NoError,
                          val |-> IF p.neg THEN 0 - BigToInt(n)
                                  ELSE BigToInt(n)]
        ][BigCmp(n, BigShl(<<1>>, 31))]
      ][IF base = 16 THEN BigFromHex(p.digits)
          ELSE BigFromDecimal(p.digits)]
    ][Digits(str, base)]
  ][base0]

\* std::stoll(str, nullptr, base): val is the eight bytes of the int64_t
stoll(str, base0) ==
  [base \in Any |->
    [p \in Any |->
      [n \in Any |->
        \* n compared with 2^63
        [c \in Any |->
          IF p.digits = <<>> THEN [thrown |-> InvalidArgument, val |-> <<>>]
          ELSE IF c > 0 \/ (c = 0 /\ ~p.neg)
               THEN [thrown |-> OutOfRange, val |-> <<>>]
               ELSE [thrown |-> NoError,
                     val |-> IF p.neg THEN Negate(BigToBytes(n, 8))
                             ELSE BigToBytes(n, 8)]
        ][BigCmp(n, BigShl(<<1>>, 63))]
      ][IF base = 16 THEN BigFromHex(p.digits)
          ELSE BigFromDecimal(p.digits)]
    ][Digits(str, base)]
  ][base0]

\* catch (...) { serializer.attribute(attr_name, attr_value); } : the handler
\* runs on the serializer as the failed call left it
catchAttribute(w, attr_name, attr_value) ==
  attribute([w EXCEPT !.thrown = NoError], attr_name, attr_value)

\* the type inference for one attribute of an element
inferAttribute(w0, attr_name0, attr_value0) ==
  [w \in Any, attr_name \in Any, attr_value \in Any |->
    IF is_boolean(attr_value)
    THEN attributeBoolean(w, attr_name, attr_value = <<116, 114, 117, 101>>)
    ELSE IF is_hex_number(attr_value)
    THEN IF Len(attr_value) <= 10
         THEN [r \in Any |->
                IF r.thrown # NoError THEN catchAttribute(w, attr_name, attr_value)
                ELSE [w1 \in Any |->
                       IF w1.thrown # NoError
                       THEN catchAttribute(w1, attr_name, attr_value)
                       ELSE w1
                     ][attributeIntHex(w, attr_name, r.val)]
              ][stoi(attr_value, 16)]
         ELSE [r \in Any |->
                IF r.thrown # NoError THEN catchAttribute(w, attr_name, attr_value)
                ELSE [w1 \in Any |->
                       IF w1.thrown # NoError
                       THEN catchAttribute(w1, attr_name, attr_value)
                       ELSE w1
                     ][attributeLongHex(w, attr_name, r.val)]
              ][stoll(attr_value, 16)]
    ELSE IF is_numeric(attr_value) /\ Len(attr_value) < 15
    THEN [r \in Any |->
           [w1 \in Any |->
             IF r.thrown = NoError /\ w1.thrown = NoError THEN w1
             ELSE \* catch (...) { try { stoll, attributeLong } catch (...) }
               [v \in Any, r2 \in Any |->
                 IF r2.thrown # NoError THEN catchAttribute(v, attr_name, attr_value)
                 ELSE [w2 \in Any |->
                        IF w2.thrown # NoError
                        THEN catchAttribute(w2, attr_name, attr_value)
                        ELSE w2
                      ][attributeLong(v, attr_name, r2.val)]
               ][[w1 EXCEPT !.thrown = NoError], stoll(attr_value, 10)]
           ][IF r.thrown # NoError THEN w
               ELSE attributeInt(w, attr_name, r.val)]
         ][stoi(attr_value, 10)]
    ELSE IF is_float(attr_value) /\ ~is_hex_string(attr_value) /\ Len(attr_value) < 20
    THEN [r \in Any |->
           IF r.thrown # NoError THEN catchAttribute(w, attr_name, attr_value)
           ELSE [w1 \in Any |->
                  IF w1.thrown # NoError
                  THEN catchAttribute(w1, attr_name, attr_value)
                  ELSE w1
                ][attributeFloat(w, attr_name, r.val)]
         ][stof(attr_value)]
    ELSE IF /\ Len(attr_value) < 50
            /\ IndexOf(attr_value, 32) = 0
            /\ IndexOf(attr_value, 45) = 0
         THEN attributeInterned(w, attr_name, attr_value)
         ELSE attribute(w, attr_name, attr_value)
  ][w0, attr_name0, attr_value0]

(***************************************************************************)
(* The DOM: pugi::xml_document as the sequence of its nodes in document    *)
(* order; a node is [type, name, value, attrs, parent], parent = 0 for a   *)
(* child of the document, attrs a sequence of [name, value].               *)
(***************************************************************************)
\* the k-th smallest element of a set of numbers
Nth(S0, k) ==
  [S \in Any |-> CHOOSE x \in S : Cardinality({y \in S : y < x}) = k - 1][S0]

\* node.children() as the sequence of the indices of the children of node i
children(nodes0, i) ==
  [nodes \in Any |->
    [S \in Any |->
      [k \in 1..Cardinality(S) |-> Nth(S, k)]
    ][{j \in 1..Len(nodes) : nodes[j].parent = i}]
  ][nodes0]

NAMESPACES == "Namespaces and prefixes"
PrefixedElement == "Found prefixed element: "
PrefixedAttribute == "Found namespace declaration or prefixed attribute: "

\* options.warning_callback(NAMESPACES, message + name): the record of the
\* conversion keeps the calls the callback received
warning_callback(w, message, name) ==
  [w EXCEPT !.warnings = Append(@, [category |-> NAMESPACES, message |-> message,
                                    name |-> name])]

\* str.find(c) != std::string::npos
find(str, c) == \E i \in 1..Len(str) : str[i] = c

\* the warning for the name of an element
warnElement(w, name, options) ==
  IF options.warning_callback /\ find(name, 58)
  THEN warning_callback(w, PrefixedElement, name)
  ELSE w

\* the warning for the name of an attribute: attr_name.find("xmlns") == 0 or
\* a colon in the name
warnAttribute(w, attr_name, options) ==
  IF options.warning_callback
       /\ (\/ (Len(attr_name) >= 5 /\ SubSeq(attr_name, 1, 5) = <<120, 109, 108, 110, 115>>)
           \/ find(attr_name, 58))
  THEN warning_callback(w, PrefixedAttribute, attr_name)
  ELSE w

\* a walk that takes the attributes of an element last to first
RECURSIVE process_xml_attributes_reversed(_, _, _, _)
process_xml_attributes_reversed(w0, attrs0, k0, options0) ==
  [w \in Any, attrs \in Any, k \in Any, options \in Any |->
    IF k > Len(attrs) \/ w.thrown # NoError THEN w
    ELSE process_xml_attributes_reversed(
           inferAttribute(warnAttribute(w, attrs[Len(attrs) + 1 - k].name, options),
                          attrs[Len(attrs) + 1 - k].name,
                          attrs[Len(attrs) + 1 - k].value),
           attrs, k + 1, options)
  ][w0, attrs0, k0, options0]

\* for (const auto &attr : node.attributes()): the warning, then the attribute
\* written with the type inferred from its value
RECURSIVE process_xml_attributes(_, _, _, _)
process_xml_attributes(w0, attrs0, k0, options0) ==
  [w \in Any, attrs \in Any, k \in Any, options \in Any |->
    IF k > Len(attrs) \/ w.thrown # NoError THEN w
    ELSE process_xml_attributes(
           inferAttribute(warnAttribute(w, attrs[k].name, options),
                          attrs[k].name, attrs[k].value),
           attrs, k + 1, options)
  ][w0, attrs0, k0, options0]

RECURSIVE process_xml_node_internal(_, _, _, _)
\* a walk that takes the children of a node last to first
RECURSIVE process_xml_children_reversed(_, _, _, _, _)
process_xml_children_reversed(w0, nodes0, kids0, k0, options0) ==
  [w \in Any, nodes \in Any, kids \in Any, k \in Any, options \in Any |->
    IF k > Len(kids) \/ w.thrown # NoError THEN w
    ELSE process_xml_children_reversed(
           process_xml_node_internal(w, nodes, kids[Len(kids) + 1 - k], options),
           nodes, kids, k + 1, options)
  ][w0, nodes0, kids0, k0, options0]

RECURSIVE process_xml_children(_, _, _, _, _)
\* for (const auto &child : ...) process_xml_node_internal(serializer, child, options)
process_xml_children(w0, nodes0, kids0, k0, options0) ==
  [w \in Any, nodes \in Any, kids \in Any, k \in Any, options \in Any |->
    IF k > Len(kids) \/ w.thrown # NoError THEN w
    ELSE process_xml_children(process_xml_node_internal(w, nodes, kids[k], options),
                              nodes, kids, k + 1, options)
  ][w0, nodes0, kids0, k0, options0]

process_xml_node_internal(w0, nodes0, i0, options0) ==
  [w \in Any, nodes \in Any, i \in Any, options \in Any |->
    [node \in Any |->
      CASE node.type = "element" ->
             [w3 \in Any |->
               IF w3.thrown # NoError THEN w3 ELSE endTag(w3, node.name)
             ][process_xml_children(
                 process_xml_attributes(startTag(warnElement(w, node.name, options),
                                                 node.name),
                                        node.attrs, 1, options),
                 nodes, children(nodes, i), 1, options)]
        [] node.type = "pcdata" ->
             IF is_whitespace_only(node.value)
             THEN IF ~options.collapse_whitespaces
                  THEN ignorableWhitespace(w, node.value)
                  ELSE w
             ELSE text(w, node.value)
        [] node.type = "cdata" -> cdsect(w, node.value)
        [] node.type = "comment" -> comment(w, node.value)
        [] node.type = "pi" -> processingInstruction(w, node.name, node.value)
        [] node.type = "doctype" -> docdecl(w, node.value)
        [] OTHER -> w
    ][nodes[i]]
  ][w0, nodes0, i0, options0]

serializeXmlToAbx(w, nodes, i, options) == process_xml_node_internal(w, nodes, i, options)

\* description is result.description()
ParseFailed(description) == "Failed to parse XML string: " \o description

\* no serializer yet: the sink os and nothing else
NoSerializer(os) ==
  [output_stream |-> os,
   string_pool |-> [s \in {} |-> 0],
   interned_strings |-> <<>>,
   mTagNames |-> <<>>,
   mTagCount |-> 0,
   thrown |-> NoError]

\* the serializer of a conversion, and with it the calls that the callback of
\* the options has received, none so far; nothing is kept without a callback
Listening(w, options) ==
  IF options.warning_callback
  THEN [f \in DOMAIN w \cup {"warnings"} |-> IF f = "warnings" THEN <<>> ELSE w[f]]
  ELSE w

\* a conversion that writes START_DOCUMENT before every child of the document
convertXmlStringToAbx_restarting(doc0, result, os, options0) ==
  [doc \in Any, options \in Any |->
    IF ~result.ok
    THEN [NoSerializer(os) EXCEPT !.thrown = ParseFailed(result.description)]
    ELSE [kids \in Any |->
           LET walk[k \in 0..Len(kids)] ==
                 IF k = 0 THEN Listening(BinaryXmlSerializer(os), options)
                 ELSE process_xml_node_internal(startDocument(walk[k - 1]), doc,
                                                kids[k], options)
           IN  endDocument(startDocument(walk[Len(kids)]))
         ][children(doc, 0)]
  ][doc0, options0]

\* convertXmlStringToAbx on the document doc that load_string built; result
\* is the pugi::xml_parse_result
convertXmlStringToAbx(doc0, result, os, options0) ==
  [doc \in Any, options \in Any |->
    IF ~result.ok
    THEN [NoSerializer(os) EXCEPT !.thrown = ParseFailed(result.description)]
    ELSE [s2 \in Any |->
           IF s2.thrown # NoError THEN s2 ELSE endDocument(s2)
         ][process_xml_children(startDocument(Listening(BinaryXmlSerializer(os), options)),
             doc, children(doc, 0), 1, options)]
  ][doc0, options0]

(***************************************************************************)
(* State.                                                                  *)
(*   ser   : the BinaryXmlSerializer and its FastDataOutput (a writer      *)
(*           state); ser.thrown is the outcome of the last call            *)
(*   calls : the calls made on the serializer so far, in order             *)
(*   des   : the BinaryXmlDeserializer and its FastDataInput (a reader     *)
(*           state) once one has been constructed on the sink's bytes      *)
(*   phase : "write" while the serializer is in use, "read" once a         *)
(*           deserializer was constructed, "input" while an input that no  *)
(*           serializer wrote is being put together, "parse" while the XML *)
(*           parser builds the document, "written" after a conversion      *)
(*   input : the bytes of the istream the deserializer is constructed on   *)
(*   dom   : the document the XML parser has built so far, and the open    *)
(*           element its next node goes into (0: the document itself)      *)
(*   g_last_error : the thread_local g_last_error of abx_c.cc, which only  *)
(*           the functions of the C API write                              *)
(* Under the C API, ser and des are the handles the caller holds (nullptr  *)
(* or a pointer to an abx_serializer / abx_deserializer), calls records    *)
(* what each function returned, and phase is "crashed" once the process    *)
(* has ended in abx_serializer_free.                                       *)
(***************************************************************************)
VARIABLES ser, calls, des, phase, input, dom, g_last_error

vars == <<ser, calls, des, phase, input, dom, g_last_error>>

NoDeserializer == [status |-> "none"]
NoDocument == [nodes |-> <<>>, cursor |-> 0]

\* the strings the serializer calls are made with, by the name they have in
\* calls; "long" is one byte longer than writeUTF accepts
StringInput ==
  [a |-> <<97>>, b |-> <<98>>, x |-> <<120>>, amp |-> <<97, 38>>, lt |-> <<60, 98>>,
   empty |-> <<>>, sp |-> <<32>>,
   long |-> [i \in 1..(MAX_UNSIGNED_SHORT + 1) |-> 97]]

TagNames == {"a", "b"}
AttrNames == {"x"}
\* int64_t and double arguments, by name
LongInput ==
  [minus1 |-> <<255, 255, 255, 255, 255, 255, 255, 255>>,
   big |-> <<0, 0, 0, 1, 0, 0, 0, 0>>]
\* 2.5 as a float and as a double
FloatInput == <<64, 32, 0, 0>>
DoubleInput == <<64, 4, 0, 0, 0, 0, 0, 0>>

Init ==
  /\ ser = BinaryXmlSerializer(<<>>)
  /\ calls = <<>>
  /\ des = NoDeserializer
  /\ phase = "write"
  /\ g_last_error = ""
  /\ input = <<>>
  /\ dom = NoDocument

\* the serializer at the start of a call: no exception is in flight
Fresh == [ser EXCEPT !.thrown = NoError]

CanCall == phase = "write" /\ Len(calls) < MaxCalls

Made(op, name, value) ==
  /\ calls' = Append(calls, [op |-> op, name |-> name, value |-> value,
                               thrown |-> ser'.thrown])
  /\ UNCHANGED <<des, phase, input, dom, g_last_error>>

StartDocument ==
  /\ CanCall
  /\ ser' = startDocument(Fresh)
  /\ Made("startDocument", "", "")

EndDocument ==
  /\ CanCall
  /\ ser' = endDocument(Fresh)
  /\ Made("endDocument", "", "")

StartTag ==
  /\ CanCall
  /\ \E name \in TagNames :
       /\ ser' = startTag(Fresh, StringInput[name])
       /\ Made("startTag", name, "")

EndTag ==
  /\ CanCall
  /\ \E name \in TagNames :
       /\ ser' = endTag(Fresh, StringInput[name])
       /\ Made("endTag", name, "")

Attribute ==
  /\ CanCall
  /\ \E name \in AttrNames, value \in {"amp", "long"} :
       /\ ser' = attribute(Fresh, StringInput[name], StringInput[value])
       /\ Made("attribute", name, value)

AttributeInterned ==
  /\ CanCall
  /\ \E name \in AttrNames, value \in {"a"} :
       /\ ser' = attributeInterned(Fresh, StringInput[name], StringInput[value])
       /\ Made("attributeInterned", name, value)

AttributeBytesHex ==
  /\ CanCall
  /\ \E name \in AttrNames, value \in {"amp"} :
       /\ ser' = attributeBytesHex(Fresh, StringInput[name], StringInput[value])
       /\ Made("attributeBytesHex", name, value)

AttributeBytesBase64 ==
  /\ CanCall
  /\ \E name \in AttrNames, value \in {"amp"} :
       /\ ser' = attributeBytesBase64(Fresh, StringInput[name], StringInput[value])
       /\ Made("attributeBytesBase64", name, value)

AttributeInt ==
  /\ CanCall
  /\ \E name \in AttrNames, value \in {0 - 2} :
       /\ ser' = attributeInt(Fresh, StringInput[name], value)
       /\ Made("attributeInt", name, value)

AttributeIntHex ==
  /\ CanCall
  /\ \E name \in AttrNames, value \in {0 - 1} :
       /\ ser' = attributeIntHex(Fresh, StringInput[name], value)
       /\ Made("attributeIntHex", name, value)

AttributeLong ==
  /\ CanCall
  /\ \E name \in AttrNames, value \in {"big"} :
       /\ ser' = attributeLong(Fresh, StringInput[name], LongInput[value])
       /\ Made("attributeLong", name, value)

AttributeLongHex ==
  /\ CanCall
  /\ \E name \in AttrNames, value \in {"minus1"} :
       /\ ser' = attributeLongHex(Fresh, StringInput[name], LongInput[value])
       /\ Made("attributeLongHex", name, value)

AttributeFloat ==
  /\ CanCall
  /\ \E name \in AttrNames :
       /\ ser' = attributeFloat(Fresh, StringInput[name], FloatInput)
       /\ Made("attributeFloat", name, "2.5")

AttributeDouble ==
  /\ CanCall
  /\ \E name \in AttrNames :
       /\ ser' = attributeDouble(Fresh, StringInput[name], DoubleInput)
       /\ Made("attributeDouble", name, "2.5")

AttributeBoolean ==
  /\ CanCall
  /\ \E name \in AttrNames, value \in BOOLEAN :
       /\ ser' = attributeBoolean(Fresh, StringInput[name], value)
       /\ Made("attributeBoolean", name, value)

Text ==
  /\ CanCall
  /\ \E value \in {"lt"} :
       /\ ser' = text(Fresh, StringInput[value])
       /\ Made("text", "", value)

Cdsect ==
  /\ CanCall
  /\ \E value \in {"lt"} :
       /\ ser' = cdsect(Fresh, StringInput[value])
       /\ Made("cdsect", "", value)

Comment ==
  /\ CanCall
  /\ \E value \in {"a"} :
       /\ ser' = comment(Fresh, StringInput[value])
       /\ Made("comment", "", value)

ProcessingInstruction ==
  /\ CanCall
  /\ \E target \in {"x"}, data \in {"empty", "a"} :
       /\ ser' = processingInstruction(Fresh, StringInput[target], StringInput[data])
       /\ Made("processingInstruction", target, data)

Docdecl ==
  /\ CanCall
  /\ \E value \in {"a"} :
       /\ ser' = docdecl(Fresh, StringInput[value])
       /\ Made("docdecl", "", value)

IgnorableWhitespace ==
  /\ CanCall
  /\ \E value \in {"sp"} :
       /\ ser' = ignorableWhitespace(Fresh, StringInput[value])
       /\ Made("ignorableWhitespace", "", value)

EntityRef ==
  /\ CanCall
  /\ \E value \in {"amp"} :
       /\ ser' = entityRef(Fresh, StringInput[value])
       /\ Made("entityRef", "", value)

\* a deserializer is constructed on the bytes the sink holds
NewDeserializer ==
  /\ phase \in {"write", "written"}
  /\ phase' = "read"
  /\ input' = ser.output_stream
  /\ des' = BinaryXmlDeserializer(input')
  /\ UNCHANGED <<ser, calls, dom, g_last_error>>

\* deserialize() on the constructed deserializer
Deserialize ==
  /\ phase = "read"
  /\ des.status = "constructed"
  /\ \E ub \in UBOutcomes : des' = deserialize(des, ub)
  /\ UNCHANGED <<ser, calls, phase, input, dom, g_last_error>>

\* a call of one of the operations of the serializer
Call ==
  \/ StartDocument
  \/ EndDocument
  \/ StartTag
  \/ EndTag
  \/ Attribute
  \/ AttributeInterned
  \/ AttributeBytesHex
  \/ AttributeBytesBase64
  \/ AttributeInt
  \/ AttributeIntHex
  \/ AttributeLong
  \/ AttributeLongHex
  \/ AttributeFloat
  \/ AttributeDouble
  \/ AttributeBoolean
  \/ Text
  \/ Cdsect
  \/ Comment
  \/ ProcessingInstruction
  \/ Docdecl
  \/ IgnorableWhitespace
  \/ EntityRef

Next ==
  \/ Call
  \/ NewDeserializer
  \/ Deserialize

Spec == Init /\ [][Next]_vars

(***************************************************************************)
(* The deserializer on an input that no serializer wrote: the input is put *)
(* together byte by byte, then a deserializer is constructed on it and     *)
(* deserialize() is called.                                                *)
(***************************************************************************)
MaxInput == 5
InputBytes == {0, 1, 17, 65, 66, 88}

InitDec ==
  /\ ser = BinaryXmlSerializer(<<>>)
  /\ calls = <<>>
  /\ des = NoDeserializer
  /\ phase = "input"
  /\ g_last_error = ""
  /\ input = <<>>
  /\ dom = NoDocument

Feed ==
  /\ phase = "input"
  /\ Len(input) < MaxInput
  /\ \E b \in InputBytes : input' = Append(input, b)
  /\ UNCHANGED <<ser, calls, des, phase, dom, g_last_error>>

OpenInput ==
  /\ phase = "input"
  /\ phase' = "read"
  /\ des' = BinaryXmlDeserializer(input)
  /\ UNCHANGED <<ser, calls, input, dom, g_last_error>>

NextDec ==
  \/ Feed
  \/ OpenInput
  \/ Deserialize

SpecDec == InitDec /\ [][NextDec]_vars

(***************************************************************************)
(* XML to ABX: the parser builds the document node by node; then the       *)
(* driver walks it, and the stream is read back.  The parser (pugixml) is  *)
(* not part of the library: which kinds of node it puts into the document  *)
(* depends on the options it is called with.  convertXmlStringToAbx calls  *)
(* it with its default options, and gets elements, CDATA sections and text *)
(* that is not blank; a caller of serializeXmlToAbx parses with options of *)
(* its own, or changes the document before the conversion, and can hand    *)
(* every kind of node to the driver.                                       *)
(***************************************************************************)
\* the nodes and attributes of a document, taken together
MaxItems == 3
ElementNames == {<<97>>, <<98>>}
AttributeNames == {<<120>>, <<121>>}
\* a, " &, 07 and &<>"'&
AttributeValues ==
  {<<97>>, <<34, 32, 38>>, <<48, 55>>, <<38, 60, 62, 34, 39, 38>>}
\* t, a blank, <&
TextValues == {<<116>>, <<32>>, <<60, 38>>}
Leaves ==
  [type : {"pcdata"}, name : {<<>>}, value : TextValues]
    \cup [type : {"cdata", "comment", "doctype"}, name : {<<>>}, value : {<<99>>}]
    \cup [type : {"pi"}, name : {<<112>>}, value : {<<100>>}]
    \cup [type : {"declaration"}, name : {<<120, 109, 108>>}, value : {<<>>}]

InitXml ==
  /\ ser = NoSerializer(<<>>)
  /\ calls = <<>>
  /\ des = NoDeserializer
  /\ phase = "parse"
  /\ g_last_error = ""
  /\ input = <<>>
  /\ dom = NoDocument

NewNode(type, name, value) ==
  [type |-> type, name |-> name, value |-> value, attrs |-> <<>>, parent |-> dom.cursor]

\* the number of nodes and attributes of the document
RECURSIVE Items(_)
Items(nodes) ==
  IF nodes = <<>> THEN 0 ELSE 1 + Len(Head(nodes).attrs) + Items(Tail(nodes))

\* the parser read a start tag
OpenElement ==
  /\ phase = "parse"
  /\ Items(dom.nodes) < MaxItems
  /\ \E name \in ElementNames :
       dom' = [nodes |-> Append(dom.nodes, NewNode("element", name, <<>>)),
               cursor |-> Len(dom.nodes) + 1]
  /\ UNCHANGED <<ser, calls, des, phase, input, g_last_error>>

\* the parser read an attribute of the start tag it is in
AddAttribute ==
  /\ phase = "parse"
  /\ dom.cursor # 0
  /\ dom.cursor = Len(dom.nodes)
  /\ Items(dom.nodes) < MaxItems
  /\ \E name \in AttributeNames, value \in AttributeValues :
       dom' = [dom EXCEPT !.nodes[dom.cursor].attrs =
                            Append(@, [name |-> name, value |-> value])]
  /\ UNCHANGED <<ser, calls, des, phase, input, g_last_error>>

\* the parser read text, a CDATA section, a comment, a processing
\* instruction, a doctype or a declaration
AddLeaf ==
  /\ phase = "parse"
  /\ Items(dom.nodes) < MaxItems
  /\ \E leaf \in Leaves :
       dom' = [dom EXCEPT !.nodes = Append(@, NewNode(leaf.type, leaf.name, leaf.value))]
  /\ UNCHANGED <<ser, calls, des, phase, input, g_last_error>>

\* the parser read the end tag of the open element
CloseElement ==
  /\ phase = "parse"
  /\ dom.cursor # 0
  /\ dom' = [dom EXCEPT !.cursor = dom.nodes[dom.cursor].parent]
  /\ UNCHANGED <<ser, calls, des, phase, input, g_last_error>>

\* a document the parser gives with its default options
DefaultOptions(nodes) ==
  \A i \in 1..Len(nodes) :
    \/ nodes[i].type \in {"element", "cdata"}
    \/ nodes[i].type = "pcdata" /\ nodes[i].parent # 0
         /\ ~is_whitespace_only(nodes[i].value)

\* pugi::xml_parse_result: its operator bool and its description()
ParseOk == [ok |-> TRUE, description |-> "No error"]
ParseError(description) == [ok |-> FALSE, description |-> description]

\* the results load_string can have: it fails when an element is still open;
\* on a text without any element it fails or not, depending on the parser
ParseResults(d) ==
  IF d.cursor # 0 THEN {ParseError("Start-end tags mismatch")}
  ELSE IF \E i \in 1..Len(d.nodes) : d.nodes[i].type = "element" THEN {ParseOk}
       ELSE {ParseOk, ParseError("No document element found")}

\* convertXmlStringToAbx on the text read so far
ConvertXmlStringToAbx ==
  /\ phase = "parse"
  /\ DefaultOptions(dom.nodes)
  /\ phase' = "written"
  /\ \E collapse \in BOOLEAN, result \in ParseResults(dom) :
       /\ ser' = convertXmlStringToAbx(dom.nodes, result, <<>>,
                                       [collapse_whitespaces |-> collapse,
                                        warning_callback |-> FALSE])
       /\ calls' = <<[op |-> "convertXmlStringToAbx", name |-> "", value |-> collapse,
                      thrown |-> ser'.thrown]>>
  /\ UNCHANGED <<des, input, dom, g_last_error>>

\* the low-level API on a document the caller parsed: a serializer of the
\* caller's, startDocument, serializeXmlToAbx on each child of the document,
\* endDocument
SerializeXmlToAbx ==
  /\ phase = "parse"
  /\ dom.cursor = 0
  /\ phase' = "written"
  /\ \E collapse \in BOOLEAN :
       /\ ser' = LET options == [collapse_whitespaces |-> collapse,
                                 warning_callback |-> FALSE]
                     kids == children(dom.nodes, 0)
                     walk[k \in 0..Len(kids)] ==
                       IF k = 0 THEN startDocument(BinaryXmlSerializer(<<>>))
                       ELSE IF walk[k - 1].thrown # NoError THEN walk[k - 1]
                            ELSE serializeXmlToAbx(walk[k - 1], dom.nodes, kids[k], options)
                     s == walk[Len(kids)]
                 IN  IF s.thrown # NoError THEN s ELSE endDocument(s)
       /\ calls' = <<[op |-> "serializeXmlToAbx", name |-> "", value |-> collapse,
                      thrown |-> ser'.thrown]>>
  /\ UNCHANGED <<des, input, dom, g_last_error>>

\* a step of the parser, or the conversion of the document it built
Convert ==
  \/ OpenElement
  \/ AddAttribute
  \/ AddLeaf
  \/ CloseElement
  \/ ConvertXmlStringToAbx
  \/ SerializeXmlToAbx

NextXml ==
  \/ Convert
  \/ NewDeserializer
  \/ Deserialize

SpecXml == InitXml /\ [][NextXml]_vars

(***************************************************************************)
(* Type inference: the conversion of <a x="V" y="42"/> for the values V    *)
(* made of up to MaxPieces pieces.                                         *)
(***************************************************************************)
MaxPieces == 3
\* true false 0x 0X - . 1 8 f 0000000 blank z, 214748364 (2^31 without its
\* last digit) and 49 times z (one character short of what is not interned)
Pieces ==
  { <<116, 114, 117, 101>>, <<102, 97, 108, 115, 101>>, <<48, 120>>, <<48, 88>>,
    <<45>>, <<46>>, <<49>>, <<56>>, <<102>>, <<48, 48, 48, 48, 48, 48, 48>>,
    <<32>>, <<122>>, <<50, 49, 52, 55, 52, 56, 51, 54, 52>>,
    [i \in 1..49 |-> 122] }

RECURSIVE Concats(_)
Concats(n) ==
  IF n = 0 THEN {<<>>}
  ELSE LET shorter == Concats(n - 1)
       IN  shorter \cup {v \o p : v \in shorter, p \in Pieces}

InferDocument(v) ==
  [nodes |-> <<[type |-> "element", name |-> <<97>>, value |-> <<>>,
                attrs |-> <<[name |-> <<120>>, value |-> v],
                            [name |-> <<121>>, value |-> <<52, 50>>]>>,
                parent |-> 0]>>,
   cursor |-> 0]

InitInfer ==
  /\ ser = NoSerializer(<<>>)
  /\ calls = <<>>
  /\ des = NoDeserializer
  /\ phase = "parse"
  /\ g_last_error = ""
  /\ input = <<>>
  /\ \E v \in Concats(MaxPieces) : dom = InferDocument(v)

NextInfer ==
  \/ ConvertXmlStringToAbx
  \/ NewDeserializer
  \/ Deserialize

SpecInfer == InitInfer /\ [][NextInfer]_vars

(***************************************************************************)
(* Namespaces: the conversion, with and without a warning callback, of a   *)
(* root element with attributes and child elements whose names may carry   *)
(* a prefix or declare a namespace.                                        *)
(***************************************************************************)
MaxNames == 2
\* a, a:b and n:c
NsElementNames == {<<97>>, <<97, 58, 98>>, <<110, 58, 99>>}
\* x, xmlns, xmlns:n, n:y and axmlns
NsAttributeNames ==
  { <<120>>, <<120, 109, 108, 110, 115>>, <<120, 109, 108, 110, 115, 58, 110>>,
    <<110, 58, 121>>, <<97, 120, 109, 108, 110, 115>> }

\* the sequences of up to n elements of S
RECURSIVE SeqsUpTo(_, _)
SeqsUpTo(S, n) ==
  IF n = 0 THEN {<<>>}
  ELSE LET shorter == SeqsUpTo(S, n - 1)
       IN  shorter \cup {Append(q, x) : q \in shorter, x \in S}

\* <names[1] attrs[1]="v" ...> <names[2]/> ... </names[1]>
NsDocument(names, attrs) ==
  [nodes |-> [i \in 1..Len(names) |->
                [type |-> "element", name |-> names[i], value |-> <<>>,
                 attrs |-> IF i = 1
                           THEN [k \in 1..Len(attrs) |-> [name |-> attrs[k], value |-> <<118>>]]
                           ELSE <<>>,
                 parent |-> IF i = 1 THEN 0 ELSE 1]],
   cursor |-> 0]

InitNs ==
  /\ ser = NoSerializer(<<>>)
  /\ calls = <<>>
  /\ des = NoDeserializer
  /\ phase = "parse"
  /\ g_last_error = ""
  /\ input = <<>>
  /\ \E names \in SeqsUpTo(NsElementNames, MaxNames) \ {<<>>},
        attrs \in SeqsUpTo(NsAttributeNames, MaxNames) :
       dom = NsDocument(names, attrs)

\* convertXmlStringToAbx with a warning callback in its options
ConvertXmlStringToAbxWarning ==
  /\ phase = "parse"
  /\ DefaultOptions(dom.nodes)
  /\ phase' = "written"
  /\ \E collapse \in BOOLEAN, result \in ParseResults(dom) :
       /\ ser' = convertXmlStringToAbx(dom.nodes, result, <<>>,
                                       [collapse_whitespaces |-> collapse,
                                        warning_callback |-> TRUE])
       /\ calls' = <<[op |-> "convertXmlStringToAbx", name |-> "warning_callback",
                      value |-> collapse, thrown |-> ser'.thrown]>>
  /\ UNCHANGED <<des, input, dom, g_last_error>>

NextNs ==
  \/ ConvertXmlStringToAbx
  \/ ConvertXmlStringToAbxWarning
  \/ NewDeserializer
  \/ Deserialize

SpecNs == InitNs /\ [][NextNs]_vars

(***************************************************************************)
(* Whitespace: the conversion of <a>T<b/>T ...</a> for texts T that are    *)
(* blank, not blank, or text with whitespace around and inside it.         *)
(***************************************************************************)
MaxTexts == 2
\* t, a blank, newline tab blank, " t ", "t u", the empty text, and the byte
\* A0, which is no whitespace for std::isspace
WsTexts ==
  { <<116>>, <<32>>, <<10, 9, 32>>, <<32, 116, 32>>, <<116, 32, 117>>, <<>>, <<160>> }

\* the root a with the texts as its children, an element b between two texts
WsDocument(texts) ==
  [nodes |->
     <<[type |-> "element", name |-> <<97>>, value |-> <<>>, attrs |-> <<>>, parent |-> 0]>>
       \o [i \in 1..(2 * Len(texts) - 1) |->
             IF i % 2 = 1
             THEN [type |-> "pcdata", name |-> <<>>, value |-> texts[(i + 1) \div 2],
                   attrs |-> <<>>, parent |-> 1]
             ELSE [type |-> "element", name |-> <<98>>, value |-> <<>>, attrs |-> <<>>,
                   parent |-> 1]],
   cursor |-> 0]

InitWs ==
  /\ ser = NoSerializer(<<>>)
  /\ calls = <<>>
  /\ des = NoDeserializer
  /\ phase = "parse"
  /\ g_last_error = ""
  /\ input = <<>>
  /\ \E texts \in SeqsUpTo(WsTexts, MaxTexts) \ {<<>>} : dom = WsDocument(texts)

NextWs ==
  \/ ConvertXmlStringToAbx
  \/ SerializeXmlToAbx
  \/ NewDeserializer
  \/ Deserialize

SpecWs == InitWs /\ [][NextWs]_vars

\* the serializer driven by calls or by a conversion; the stream is not read
\* back
NextWrite ==
  \/ Call
  \/ Convert

SpecWrite == (Init \/ InitXml) /\ [][NextWrite]_vars

(***************************************************************************)
(* A stream that was cut: a document is converted, and a deserializer is   *)
(* constructed on the first bytes of the stream, the magic and less than   *)
(* all that follows it.                                                    *)
(***************************************************************************)
OpenPrefix ==
  /\ phase = "written"
  /\ ser.thrown = NoError
  /\ phase' = "read"
  /\ \E n \in 4..(Len(ser.output_stream) - 1) :
       /\ input' = SubSeq(ser.output_stream, 1, n)
       /\ des' = BinaryXmlDeserializer(input')
  /\ UNCHANGED <<ser, calls, dom, g_last_error>>

NextCut ==
  \/ Convert
  \/ OpenPrefix
  \/ Deserialize

SpecCut == InitXml /\ [][NextCut]_vars

(***************************************************************************)
(* The deserializer on a stream of records that no serializer wrote: the   *)
(* magic and up to MaxTokens records, among them references to strings     *)
(* that were never interned, attributes of types that are not defined,     *)
(* tokens of commands that are not defined and hex attributes of every     *)
(* sign.                                                                   *)
(***************************************************************************)
MaxTokens == 3
\* the payloads of the INT_HEX and LONG_HEX attributes
IntHexPayloads ==
  { <<255, 255, 255, 255>>, <<255, 255, 255, 254>>, <<128, 0, 0, 0>>,
    <<0, 0, 0, 255>>, <<0, 171, 205, 239>> }
LongHexPayloads ==
  { <<255, 255, 255, 255, 255, 255, 255, 255>>,
    <<255, 255, 255, 255, 255, 255, 255, 254>>,
    <<0, 0, 0, 1, 0, 0, 0, 0>> }
TokenRecords ==
  { <<END_DOCUMENT + TYPE_NULL>>,
    \* <a and <b, the name introduced
    <<START_TAG + TYPE_STRING_INTERNED, 255, 255, 0, 1, 97>>,
    <<START_TAG + TYPE_STRING_INTERNED, 255, 255, 0, 1, 98>>,
    \* a start tag and end tags whose names are references
    <<START_TAG + TYPE_STRING_INTERNED, 255, 254>>,
    <<END_TAG + TYPE_STRING_INTERNED, 0, 0>>,
    <<END_TAG + TYPE_STRING_INTERNED, 0, 1>>,
    \* attributes of the types 0xE0 and 0x00
    <<ATTRIBUTE + 224, 0, 0>>,
    <<ATTRIBUTE, 255, 255, 0, 1, 120>>,
    \* tokens of the commands 11 and 14, which are not defined
    <<11 + TYPE_NULL>>,
    <<14 + TYPE_STRING>> }
    \cup {<<ATTRIBUTE + TYPE_INT_HEX, 0, 0>> \o p : p \in IntHexPayloads}
    \cup {<<ATTRIBUTE + TYPE_LONG_HEX, 0, 0>> \o p : p \in LongHexPayloads}

RECURSIVE TokenStreams(_)
TokenStreams(n) ==
  IF n = 0 THEN {<<>>}
  ELSE LET shorter == TokenStreams(n - 1)
       IN  shorter \cup {s \o r : s \in shorter, r \in TokenRecords}

InitTok ==
  /\ ser = BinaryXmlSerializer(<<>>)
  /\ calls = <<>>
  /\ des = NoDeserializer
  /\ phase = "input"
  /\ g_last_error = ""
  /\ dom = NoDocument
  /\ \E s \in TokenStreams(MaxTokens) : input = PROTOCOL_MAGIC_VERSION_0 \o s

NextTok ==
  \/ OpenInput
  \/ Deserialize

SpecTok == InitTok /\ [][NextTok]_vars

(***************************************************************************)
(* deserialize() turn by turn of its loop, on the streams of records.      *)
(***************************************************************************)
\* one turn of the loop of deserialize()
Turn ==
  /\ phase = "read"
  /\ des.status \in {"constructed", "decoding"}
  /\ \E ub \in UBOutcomes : des' = deserializeTurn(des, ub)
  /\ UNCHANGED <<ser, calls, phase, input, dom, g_last_error>>

NextTurn ==
  \/ OpenInput
  \/ Turn

SpecTurn == InitTok /\ [][NextTurn]_vars

(***************************************************************************)
(* writeUTF at its limit: the string is as long as writeUTF accepts, up to *)
(* MaxOver bytes longer or shorter, or nearly empty, and it is written up  *)
(* to MaxCalls times.                                                      *)
(***************************************************************************)
MaxOver == 2
UTFLengths ==
  {0, 1} \cup ((MAX_UNSIGNED_SHORT - MaxOver)..(MAX_UNSIGNED_SHORT + MaxOver))
\* the byte the string is made of
UTFFill == {0, 10, 97, 128, 255}

InitUTF ==
  /\ ser = BinaryXmlSerializer(<<>>)
  /\ calls = <<>>
  /\ des = NoDeserializer
  /\ phase = "write"
  /\ g_last_error = ""
  /\ dom = NoDocument
  /\ \E n \in UTFLengths, c \in UTFFill : input = [i \in 1..n |-> c]

\* writeUTF(input) on the writer of the serializer
WriteUTF ==
  /\ CanCall
  /\ ser' = writeUTF(Fresh, input)
  /\ Made("writeUTF", "", "")

NextUTF == WriteUTF

SpecUTF == InitUTF /\ [][NextUTF]_vars

(***************************************************************************)
(* writeInternedUTF on a pool that is nearly full.                          *)
(***************************************************************************)
\* the i-th of the 65536 strings of two bytes
PoolString(i) == <<i \div 256, i % 256>>

\* the serializer after writeInternedUTF was called on its writer with the n
\* strings PoolString(0) .. PoolString(n - 1), in this order
Interned(n) ==
  [BinaryXmlSerializer(<<>>) EXCEPT
     !.output_stream =
        @ \o [k \in 1..(6 * n) |->
                [i \in Any, j \in Any |->
                  CASE j \in {0, 1} -> 255
                    [] j = 2 -> 0
                    [] j = 3 -> 2
                    [] j = 4 -> i \div 256
                    [] j = 5 -> i % 256
                ][(k - 1) \div 6, (k - 1) % 6]],
     !.string_pool = [s \in {PoolString(i) : i \in 0..(n - 1)} |-> s[1] * 256 + s[2]],
     !.interned_strings = @ \o [i \in 1..n |-> PoolString(i - 1)]]

PoolSizes == (MAX_UNSIGNED_SHORT - MaxOver)..MAX_UNSIGNED_SHORT
\* strings of the pool, strings that are new to some or all of the pools, the
\* empty string
PoolInputs ==
  {PoolString(0), PoolString(MAX_UNSIGNED_SHORT - MaxOver - 1),
   PoolString(MAX_UNSIGNED_SHORT - 1), PoolString(MAX_UNSIGNED_SHORT),
   <<97>>, <<>>}
MaxInterns == 2

InitPool ==
  /\ \E n \in PoolSizes : ser = Interned(n)
  /\ calls = <<>>
  /\ des = NoDeserializer
  /\ phase = "write"
  /\ g_last_error = ""
  /\ input = <<>>
  /\ dom = NoDocument

\* writeInternedUTF(str) on the writer of the serializer
WriteInternedUTF ==
  /\ phase = "write"
  /\ Len(calls) < MaxInterns
  /\ \E str \in PoolInputs :
       /\ ser' = writeInternedUTF(Fresh, str)
       /\ Made("writeInternedUTF", str, "")

NextPool == WriteInternedUTF

SpecPool == InitPool /\ [][NextPool]_vars

(***************************************************************************)
(* The C API of abx_c.cc.  In this specification ser is the                *)
(* abx_serializer_t* of the caller and des its abx_deserializer_t*: the    *)
(* null pointer until a create function returned a handle, and again once  *)
(* the caller freed it.  The sink of the serializer behind ser is the      *)
(* buffer_stream of the struct or the file the handle was created on.      *)
(* g_last_error is the thread_local string of the calling thread.  A call  *)
(* in calls carries                                                        *)
(*   code       : <<c>> for the abx_error_t c the call returned or stored  *)
(*                through error, <<>> when it reported none                *)
(*   size       : <<n>> for the size_t n the call returned                 *)
(*   out        : <<bytes>> for the bytes the call stored in out_buffer or *)
(*                left in the file it opened for writing                   *)
(*   last_error : what abx_get_last_error() returns after the call         *)
(* Files are the environment's: whether a file opens, and what a file that *)
(* is read holds, is chosen with each call.                                *)
(***************************************************************************)
ABX_OK == 0
ABX_ERROR_NULL_POINTER == 0 - 1
ABX_ERROR_INVALID_HANDLE == 0 - 2
ABX_ERROR_FILE_NOT_FOUND == 0 - 3
ABX_ERROR_WRITE_FAILED == 0 - 5
ABX_ERROR_TAG_MISMATCH == 0 - 8
ABX_ERROR_UNKNOWN == 0 - 100

InvalidHandle == "Invalid serializer handle"
TagNameNull == "Tag name is null"

\* a pointer: null, or the object it points at
nullptr == [null |-> TRUE]
Ptr(object) == [null |-> FALSE, at |-> object]

\* what a function of the C API leaves: the code it returns, g_last_error
set_error(code, msg) == [code |-> code, g_last_error |-> msg]
clear_error == ""
\* e is what() of the exception
handle_exception(e) == [code |-> ABX_ERROR_UNKNOWN, g_last_error |-> e]

abx_get_last_error(g) == IF g = "" THEN nullptr ELSE Ptr(g)

\* struct abx_serializer as the create functions fill it: buffer_stream is
\* whether the pointer of that name holds a stream; stream always does
abx_serializer(buffer_stream) ==
  [serializer |-> BinaryXmlSerializer(<<>>), buffer_stream |-> buffer_stream,
   document_started |-> FALSE]

\* struct abx_deserializer: the bytes to decode
abx_deserializer(data) == [data |-> data]

\* return r;
Return(r) == [code |-> <<r.code>>, g_last_error |-> r.g_last_error]
\* clear_error() was called and ABX_OK is the code
Ok == [code |-> ABX_OK, g_last_error |-> clear_error]
\* if (error) *error = r;  where g is g_last_error before the statement: r
\* is evaluated, and with it g_last_error written, only when error is not
\* null
Store(error, r, g) ==
  IF error THEN Return(r) ELSE [code |-> <<>>, g_last_error |-> g]

\* try { clear_error(); <the call that left the serializer as w>; return
\* ABX_OK; } catch (const std::exception& e) { return handle_exception(e); }
Tried(h0, w0, started0) ==
  [h \in Any, w \in Any, started \in Any |->
    IF w.thrown # NoError
    THEN [serializer |-> Ptr([h.at EXCEPT !.serializer = w])]
           @@ Return(handle_exception(w.thrown))
    ELSE [serializer |-> Ptr([h.at EXCEPT !.serializer = w,
                                          !.document_started = @ \/ started])]
           @@ Return(Ok)
  ][h0, w0, started0]

\* the serializer behind a handle at the start of a call
Behind(h) == [h.at.serializer EXCEPT !.thrown = NoError]

\* if (out_buffer && buffer_size >= size) memcpy(out_buffer, bytes, size):
\* a buffer is the null pointer or a pointer to buffer_size bytes
Copy(out_buffer, bytes) ==
  IF ~out_buffer.null /\ out_buffer.at >= Len(bytes) THEN <<bytes>> ELSE <<>>

\* libabx::XmlToAbxOptions of a conversion called with options
Options(options) ==
  [collapse_whitespaces |-> ~options.null /\ options.at.collapse_whitespaces # 0,
   warning_callback |-> FALSE]

\* convertXmlFileToAbx on the document doc that load_file built
convertXmlFileToAbx(xml_path, doc, result, os, options) ==
  IF ~result.ok
  THEN [NoSerializer(os) EXCEPT
          !.thrown = "Failed to parse XML file '" \o xml_path \o "': "
                       \o result.description]
  ELSE [s2 \in Any |->
         IF s2.thrown # NoError THEN s2 ELSE endDocument(s2)
       ][process_xml_children(
           startDocument(Listening(BinaryXmlSerializer(os), options)),
           doc, children(doc, 0), 1, options)]

\* BinaryXmlDeserializer deserializer(abx_input, out);
\* deserializer.deserialize();
Decoded(abx_input, ub) ==
  [d \in Any |->
    IF d.thrown # NoError THEN d ELSE deserialize(d, ub)
  ][BinaryXmlDeserializer(abx_input)]

\* convertAbxToXmlString: thrown is the exception that leaves it, mOut the
\* text in the std::ostringstream
convertAbxToXmlString(abx_input, ub) == Decoded(abx_input, ub)

\* convertAbxToXmlFile: opens is whether the std::ofstream on xml_path
\* opened, mOut what the file holds
convertAbxToXmlFile(abx_input, xml_path, opens, ub) ==
  IF ~opens
  THEN [thrown |-> "Failed to open output file: " \o xml_path, opened |-> FALSE]
  ELSE [d \in Any |->
         [thrown |-> d.thrown, opened |-> TRUE, mOut |-> d.mOut]
       ][Decoded(abx_input, ub)]

\* libabx::base64_decode: characters that are not of the alphabet are
\* skipped, the first = ends the decoding.  val is a uint32_t of which only
\* the bits 0..13 are ever read (valb is at most 4 when a byte is taken);
\* the model keeps its low 24 bits
base64_decode(data0) ==
  [data \in Any |->
    LET pos(c) == CHOOSE i \in 0..63 : base64_chars[i] = c
        F[k \in 0..Len(data)] ==
          IF k = 0 THEN [val |-> 0, valb |-> 0 - 8, result |-> <<>>, done |-> FALSE]
          ELSE [p \in Any, c \in Any |->
                 IF p.done \/ c = 61 THEN [p EXCEPT !.done = TRUE]
                 ELSE IF \A i \in 0..63 : base64_chars[i] # c THEN p
                 ELSE [val \in Any, valb \in Any |->
                        IF valb >= 0
                        THEN [p EXCEPT !.val = val, !.valb = valb - 8,
                                       !.result = Append(@, (val \div (2 ^ valb)) % 256)]
                        ELSE [p EXCEPT !.val = val, !.valb = valb]
                      ][(p.val * 64 + pos(c)) % (2 ^ 24), p.valb + 6]
               ][F[k - 1], data[k]]
    IN  F[Len(data)].result
  ][data0]

\* std::stoul(str, nullptr, 16) cast to uint8_t: leading whitespace is
\* skipped, a sign and a 0x prefix are accepted, the conversion ends at the
\* first character that is no digit; what is what() of the
\* std::invalid_argument of the standard library
stoul(str0, what) ==
  [str \in Any |->
    [p \in Any |->
      IF p.digits = <<>> THEN [thrown |-> what, val |-> 0]
      ELSE [n \in Any |->
             [thrown |-> NoError, val |-> IF p.neg THEN (256 - n) % 256 ELSE n]
           ][BigToInt(BigFromHex(p.digits)) % 256]
    ][Digits(str, 16)]
  ][LET first == CHOOSE k \in 1..(Len(str0) + 1) :
                   /\ \A i \in 1..(k - 1) : isspace(str0[i])
                   /\ (k <= Len(str0) => ~isspace(str0[k]))
    IN  SubSeq(str0, first, Len(str0))]

\* libabx::hex_decode: val is the vector
hex_decode(hex0, what) ==
  [hex \in Any |->
    IF Len(hex) % 2 # 0
    THEN [thrown |-> "Invalid hex string: odd length", val |-> <<>>]
    ELSE LET F[k \in 0..(Len(hex) \div 2)] ==
               IF k = 0 THEN [thrown |-> NoError, val |-> <<>>]
               ELSE [p \in Any |->
                      IF p.thrown # NoError THEN p
                      ELSE [byte \in Any |->
                             IF byte.thrown # NoError
                             THEN [thrown |-> byte.thrown, val |-> <<>>]
                             ELSE [p EXCEPT !.val = Append(@, byte.val)]
                           ][stoul(SubSeq(hex, 2 * k - 1, 2 * k), what)]
                    ][F[k - 1]]
         IN  F[Len(hex) \div 2]
  ][hex0]

\* ss << std::hex << std::uppercase << std::setw(2) << std::setfill('0')
\* for every byte of data
hex_encode(data0) ==
  [data \in Any |->
    LET digit(n) == IF n < 10 THEN 48 + n ELSE 55 + n
    IN  [i \in 1..(2 * Len(data)) |->
          IF i % 2 = 1 THEN digit(data[(i + 1) \div 2] \div 16)
          ELSE digit(data[i \div 2] % 16)]
  ][data0]

MaxApiCalls == 3
\* the conversions and the utility functions, which take no handle, are
\* among the first MaxConversions calls
MaxConversions == 2
\* the size of the buffers that are not too small
MaxBuffer == 64

\* the names a call of the C API is made with: a name or the null pointer
ApiNames == [a |-> Ptr(StringInput.a), b |-> Ptr(StringInput.b), null |-> nullptr]
\* the texts and string values: "long" is one byte longer than writeUTF
\* accepts
ApiTexts ==
  [lt |-> Ptr(StringInput.lt), long |-> Ptr(StringInput.long), null |-> nullptr]
\* the byte arrays
ApiData == [amp |-> Ptr(StringInput.amp), null |-> nullptr]
\* the paths
ApiPaths == [abx |-> Ptr("a.abx"), xml |-> Ptr("a.xml"), null |-> nullptr]
\* the out_buffer and buffer_size of a call: no buffer, a buffer of no
\* bytes, a buffer of MaxBuffer bytes
ApiBuffers == {nullptr, Ptr(0), Ptr(MaxBuffer)}
\* the abx_options_t* of a conversion
ApiOptions ==
  {nullptr, Ptr([collapse_whitespaces |-> 0]), Ptr([collapse_whitespaces |-> 1])}
\* the handles a call is made with: the one the caller holds, if it holds
\* one, or the null pointer
ApiHandles(held) == IF held.null THEN {"null"} ELSE {"held", "null"}
Handle(which) == IF which = "held" THEN ser ELSE nullptr
DeserializerHandle(which) == IF which = "held" THEN des ELSE nullptr

\* the ABX data that is decoded: <a></a>, no byte at all, a CDSECT record
\* that is cut in its string, an interned index that the pool does not have
\* followed by one more byte
ApiAbx ==
  { <<65, 66, 88, 0, 16, 50, 255, 255, 0, 1, 97, 51, 0, 0, 17>>,
    <<>>,
    <<65, 66, 88, 0, 37, 0, 5, 97, 98>>,
    <<65, 66, 88, 0, 50, 0, 5, 0>> }
\* an ABX file: one that cannot be opened, or its bytes
AbxFiles == {nullptr} \cup {Ptr(data) : data \in ApiAbx}

\* the XML texts and what the parser makes of them: <a> t <b/>t u</a> and <a>
ApiXml ==
  { [doc |-> WsDocument(<< <<32, 116, 32>>, <<116, 32, 117>> >>).nodes, result |-> ParseOk],
    [doc |-> <<>>, result |-> ParseError("Start-end tags mismatch")] }
\* an XML file: one of the texts, or a file that load_file cannot open
XmlFiles == ApiXml \cup {[doc |-> <<>>, result |-> ParseError("File was not found")]}

\* the strings that are decoded: base64 with padding, with characters that
\* are skipped, hexadecimal digits, a string of odd length, no digits
ApiEncoded ==
  [base64 |-> Ptr(<<89, 87, 89, 61>>), skipped |-> Ptr(<<89, 33, 81, 10, 61, 89>>),
   hex |-> Ptr(<<52, 49, 45, 49, 48, 120>>), odd |-> Ptr(<<52>>),
   nohex |-> Ptr(<<52, 49, 103, 49>>), null |-> nullptr]
Base64Inputs == {"base64", "skipped", "null"}
HexInputs == {"hex", "odd", "nohex", "null"}
\* what() of the std::invalid_argument that std::stoul throws: the text of
\* libstdc++ and that of libc++
StoulWhat == {"stoul", "stoul: no conversion"}

InitApi ==
  /\ ser = nullptr
  /\ calls = <<>>
  /\ des = nullptr
  /\ phase = "write"
  /\ g_last_error = ""
  /\ input = <<>>
  /\ dom = NoDocument

CanCallApi == phase = "write" /\ Len(calls) < MaxApiCalls
CanConvert == phase = "write" /\ Len(calls) < MaxConversions

\* the call returned with the outcome r: r.serializer and r.deserializer are
\* the handles the caller holds after it, r.phase is "crashed" when the
\* process ended in the call
Returned(op, handle, name, r) ==
  /\ ser' = IF "serializer" \in DOMAIN r THEN r.serializer ELSE ser
  /\ des' = IF "deserializer" \in DOMAIN r THEN r.deserializer ELSE des
  /\ phase' = IF "phase" \in DOMAIN r THEN r.phase ELSE phase
  /\ g_last_error' = r.g_last_error
  /\ calls' = Append(calls, [op |-> op, handle |-> handle, name |-> name,
                               code |-> r.code,
                               size |-> IF "size" \in DOMAIN r THEN r.size ELSE <<>>,
                               out |-> IF "out" \in DOMAIN r THEN r.out ELSE <<>>,
                               last_error |-> abx_get_last_error(r.g_last_error)])
  /\ UNCHANGED <<input, dom>>

abx_serializer_create_file ==
  /\ CanCallApi
  /\ ser.null
  /\ \E filepath \in {"abx", "null"}, error \in BOOLEAN, opens \in BOOLEAN :
       Returned("abx_serializer_create_file", "", filepath,
         IF ApiPaths[filepath].null
         THEN Store(error, set_error(ABX_ERROR_NULL_POINTER, "filepath is null"),
                    g_last_error)
         ELSE IF ~opens
         THEN Store(error, set_error(ABX_ERROR_FILE_NOT_FOUND,
                                     "Failed to open file for writing"), clear_error)
         ELSE [serializer |-> Ptr(abx_serializer(FALSE))] @@ Store(error, Ok, clear_error))

abx_serializer_create_buffer ==
  /\ CanCallApi
  /\ ser.null
  /\ \E error \in BOOLEAN :
       Returned("abx_serializer_create_buffer", "", "",
         [serializer |-> Ptr(abx_serializer(TRUE))] @@ Store(error, Ok, clear_error))

abx_serializer_start_document ==
  /\ CanCallApi
  /\ \E handle \in ApiHandles(ser) :
       LET serializer == Handle(handle)
       IN  Returned("abx_serializer_start_document", handle, "",
             IF serializer.null
             THEN Return(set_error(ABX_ERROR_INVALID_HANDLE, InvalidHandle))
             ELSE Tried(serializer, startDocument(Behind(serializer)), TRUE))

abx_serializer_end_document ==
  /\ CanCallApi
  /\ \E handle \in ApiHandles(ser) :
       LET serializer == Handle(handle)
       IN  Returned("abx_serializer_end_document", handle, "",
             IF serializer.null
             THEN Return(set_error(ABX_ERROR_INVALID_HANDLE, InvalidHandle))
             ELSE Tried(serializer, endDocument(Behind(serializer)), FALSE))

abx_serializer_start_tag ==
  /\ CanCallApi
  /\ \E handle \in ApiHandles(ser), name \in DOMAIN ApiNames :
       LET serializer == Handle(handle)
       IN  Returned("abx_serializer_start_tag", handle, name,
             IF serializer.null
             THEN Return(set_error(ABX_ERROR_INVALID_HANDLE, InvalidHandle))
             ELSE IF ApiNames[name].null
             THEN Return(set_error(ABX_ERROR_NULL_POINTER, TagNameNull))
             ELSE Tried(serializer, startTag(Behind(serializer), ApiNames[name].at), FALSE))

abx_serializer_end_tag ==
  /\ CanCallApi
  /\ \E handle \in ApiHandles(ser), name \in DOMAIN ApiNames :
       LET serializer == Handle(handle)
       IN  Returned("abx_serializer_end_tag", handle, name,
             IF serializer.null
             THEN Return(set_error(ABX_ERROR_INVALID_HANDLE, InvalidHandle))
             ELSE IF ApiNames[name].null
             THEN Return(set_error(ABX_ERROR_NULL_POINTER, TagNameNull))
             ELSE Tried(serializer, endTag(Behind(serializer), ApiNames[name].at), FALSE))

abx_serializer_attribute_string ==
  /\ CanCallApi
  /\ \E handle \in ApiHandles(ser), name \in {"a", "null"}, value \in DOMAIN ApiTexts :
       LET serializer == Handle(handle)
       IN  Returned("abx_serializer_attribute_string", handle, name,
             IF serializer.null
             THEN Return(set_error(ABX_ERROR_INVALID_HANDLE, InvalidHandle))
             ELSE IF ApiNames[name].null \/ ApiTexts[value].null
             THEN Return(set_error(ABX_ERROR_NULL_POINTER, "Attribute name or value is null"))
             ELSE Tried(serializer,
                        attribute(Behind(serializer), ApiNames[name].at, ApiTexts[value].at),
                        FALSE))

abx_serializer_attribute_int ==
  /\ CanCallApi
  /\ \E handle \in ApiHandles(ser), name \in {"a", "null"}, value \in {0 - 2} :
       LET serializer == Handle(handle)
       IN  Returned("abx_serializer_attribute_int", handle, name,
             IF serializer.null
             THEN Return(set_error(ABX_ERROR_INVALID_HANDLE, InvalidHandle))
             ELSE IF ApiNames[name].null
             THEN Return(set_error(ABX_ERROR_NULL_POINTER, "Attribute name is null"))
             ELSE Tried(serializer,
                        attributeInt(Behind(serializer), ApiNames[name].at, value),
                        FALSE))

abx_serializer_attribute_int_hex ==
  /\ CanCallApi
  /\ \E handle \in ApiHandles(ser), name \in {"a", "null"}, value \in {0 - 1} :
       LET serializer == Handle(handle)
       IN  Returned("abx_serializer_attribute_int_hex", handle, name,
             IF serializer.null
             THEN Return(set_error(ABX_ERROR_INVALID_HANDLE, InvalidHandle))
             ELSE IF ApiNames[name].null
             THEN Return(set_error(ABX_ERROR_NULL_POINTER, "Attribute name is null"))
             ELSE Tried(serializer,
                        attributeIntHex(Behind(serializer), ApiNames[name].at, value),
                        FALSE))

abx_serializer_attribute_long ==
  /\ CanCallApi
  /\ \E handle \in ApiHandles(ser), name \in {"a", "null"}, value \in {"big"} :
       LET serializer == Handle(handle)
       IN  Returned("abx_serializer_attribute_long", handle, name,
             IF serializer.null
             THEN Return(set_error(ABX_ERROR_INVALID_HANDLE, InvalidHandle))
             ELSE IF ApiNames[name].null
             THEN Return(set_error(ABX_ERROR_NULL_POINTER, "Attribute name is null"))
             ELSE Tried(serializer,
                        attributeLong(Behind(serializer), ApiNames[name].at, LongInput[value]),
                        FALSE))

abx_serializer_attribute_long_hex ==
  /\ CanCallApi
  /\ \E handle \in ApiHandles(ser), name \in {"a", "null"}, value \in {"minus1"} :
       LET serializer == Handle(handle)
       IN  Returned("abx_serializer_attribute_long_hex", handle, name,
             IF serializer.null
             THEN Return(set_error(ABX_ERROR_INVALID_HANDLE, InvalidHandle))
             ELSE IF ApiNames[name].null
             THEN Return(set_error(ABX_ERROR_NULL_POINTER, "Attribute name is null"))
             ELSE Tried(serializer,
                        attributeLongHex(Behind(serializer), ApiNames[name].at, LongInput[value]),
                        FALSE))

abx_serializer_attribute_float ==
  /\ CanCallApi
  /\ \E handle \in ApiHandles(ser), name \in {"a", "null"}, value \in {FloatInput} :
       LET serializer == Handle(handle)
       IN  Returned("abx_serializer_attribute_float", handle, name,
             IF serializer.null
             THEN Return(set_error(ABX_ERROR_INVALID_HANDLE, InvalidHandle))
             ELSE IF ApiNames[name].null
             THEN Return(set_error(ABX_ERROR_NULL_POINTER, "Attribute name is null"))
             ELSE Tried(serializer,
                        attributeFloat(Behind(serializer), ApiNames[name].at, value),
                        FALSE))

abx_serializer_attribute_double ==
  /\ CanCallApi
  /\ \E handle \in ApiHandles(ser), name \in {"a", "null"}, value \in {DoubleInput} :
       LET serializer == Handle(handle)
       IN  Returned("abx_serializer_attribute_double", handle, name,
             IF serializer.null
             THEN Return(set_error(ABX_ERROR_INVALID_HANDLE, InvalidHandle))
             ELSE IF ApiNames[name].null
             THEN Return(set_error(ABX_ERROR_NULL_POINTER, "Attribute name is null"))
             ELSE Tried(serializer,
                        attributeDouble(Behind(serializer), ApiNames[name].at, value),
                        FALSE))

abx_serializer_attribute_bool ==
  /\ CanCallApi
  /\ \E handle \in ApiHandles(ser), name \in {"a", "null"}, value \in {0, 2} :
       LET serializer == Handle(handle)
       IN  Returned("abx_serializer_attribute_bool", handle, name,
             IF serializer.null
             THEN Return(set_error(ABX_ERROR_INVALID_HANDLE, InvalidHandle))
             ELSE IF ApiNames[name].null
             THEN Return(set_error(ABX_ERROR_NULL_POINTER, "Attribute name is null"))
             ELSE Tried(serializer,
                        attributeBoolean(Behind(serializer), ApiNames[name].at, value # 0),
                        FALSE))

abx_serializer_attribute_bytes_hex ==
  /\ CanCallApi
  /\ \E handle \in ApiHandles(ser), name \in {"a", "null"}, data \in DOMAIN ApiData :
       LET serializer == Handle(handle)
       IN  Returned("abx_serializer_attribute_bytes_hex", handle, name,
             IF serializer.null
             THEN Return(set_error(ABX_ERROR_INVALID_HANDLE, InvalidHandle))
             ELSE IF ApiNames[name].null \/ ApiData[data].null
             THEN Return(set_error(ABX_ERROR_NULL_POINTER, "Attribute name or data is null"))
             ELSE Tried(serializer,
                        attributeBytesHex(Behind(serializer), ApiNames[name].at, ApiData[data].at),
                        FALSE))

abx_serializer_attribute_bytes_base64 ==
  /\ CanCallApi
  /\ \E handle \in ApiHandles(ser), name \in {"a", "null"}, data \in DOMAIN ApiData :
       LET serializer == Handle(handle)
       IN  Returned("abx_serializer_attribute_bytes_base64", handle, name,
             IF serializer.null
             THEN Return(set_error(ABX_ERROR_INVALID_HANDLE, InvalidHandle))
             ELSE IF ApiNames[name].null \/ ApiData[data].null
             THEN Return(set_error(ABX_ERROR_NULL_POINTER, "Attribute name or data is null"))
             ELSE Tried(serializer,
                        attributeBytesBase64(Behind(serializer), ApiNames[name].at, ApiData[data].at),
                        FALSE))

abx_serializer_text ==
  /\ CanCallApi
  /\ \E handle \in ApiHandles(ser), str \in DOMAIN ApiTexts :
       LET serializer == Handle(handle)
       IN  Returned("abx_serializer_text", handle, "",
             IF serializer.null
             THEN Return(set_error(ABX_ERROR_INVALID_HANDLE, InvalidHandle))
             ELSE IF ApiTexts[str].null
             THEN Return(set_error(ABX_ERROR_NULL_POINTER, "Text is null"))
             ELSE Tried(serializer, text(Behind(serializer), ApiTexts[str].at), FALSE))

abx_serializer_cdata ==
  /\ CanCallApi
  /\ \E handle \in ApiHandles(ser), str \in DOMAIN ApiTexts :
       LET serializer == Handle(handle)
       IN  Returned("abx_serializer_cdata", handle, "",
             IF serializer.null
             THEN Return(set_error(ABX_ERROR_INVALID_HANDLE, InvalidHandle))
             ELSE IF ApiTexts[str].null
             THEN Return(set_error(ABX_ERROR_NULL_POINTER, "Text is null"))
             ELSE Tried(serializer, cdsect(Behind(serializer), ApiTexts[str].at), FALSE))

abx_serializer_comment ==
  /\ CanCallApi
  /\ \E handle \in ApiHandles(ser), str \in DOMAIN ApiTexts :
       LET serializer == Handle(handle)
       IN  Returned("abx_serializer_comment", handle, "",
             IF serializer.null
             THEN Return(set_error(ABX_ERROR_INVALID_HANDLE, InvalidHandle))
             ELSE IF ApiTexts[str].null
             THEN Return(set_error(ABX_ERROR_NULL_POINTER, "Text is null"))
             ELSE Tried(serializer, comment(Behind(serializer), ApiTexts[str].at), FALSE))

abx_serializer_get_buffer ==
  /\ CanCallApi
  /\ \E handle \in ApiHandles(ser), out_buffer \in ApiBuffers :
       LET serializer == Handle(handle)
       IN  Returned("abx_serializer_get_buffer", handle, "",
             IF serializer.null \/ ~serializer.at.buffer_stream
             THEN [code |-> <<>>, size |-> <<0>>,
                   g_last_error |->
                     set_error(ABX_ERROR_INVALID_HANDLE,
                               "Invalid serializer handle or not a buffer serializer").g_last_error]
             ELSE [code |-> <<>>, g_last_error |-> clear_error,
                   size |-> <<Len(serializer.at.serializer.output_stream)>>,
                   out |-> Copy(out_buffer, serializer.at.serializer.output_stream)])

abx_serializer_free ==
  /\ CanCallApi
  /\ \E handle \in ApiHandles(ser), ends \in BOOLEAN :
       LET serializer == Handle(handle)
       IN  /\ ends => (~serializer.null /\ serializer.at.buffer_stream)
           /\ Returned("abx_serializer_free", handle, "",
                [code |-> <<>>, g_last_error |-> g_last_error,
                 serializer |-> IF handle = "held" THEN nullptr ELSE ser,
                 phase |-> IF ends THEN "crashed" ELSE phase])

abx_deserializer_create_file ==
  /\ CanCallApi
  /\ des.null
  /\ \E filepath \in {"abx", "null"}, error \in BOOLEAN, file \in AbxFiles :
       Returned("abx_deserializer_create_file", "", filepath,
         IF ApiPaths[filepath].null
         THEN Store(error, set_error(ABX_ERROR_NULL_POINTER, "filepath is null"),
                    g_last_error)
         ELSE IF file.null
         THEN Store(error, set_error(ABX_ERROR_FILE_NOT_FOUND,
                                     "Failed to open file for reading"), clear_error)
         ELSE [deserializer |-> Ptr(abx_deserializer(file.at))]
                @@ Store(error, Ok, clear_error))

abx_deserializer_create_buffer ==
  /\ CanCallApi
  /\ des.null
  /\ \E data \in AbxFiles, error \in BOOLEAN :
       Returned("abx_deserializer_create_buffer", "", "",
         IF data.null
         THEN Store(error, set_error(ABX_ERROR_NULL_POINTER, "data is null"), g_last_error)
         ELSE [deserializer |-> Ptr(abx_deserializer(data.at))]
                @@ Store(error, Ok, clear_error))

abx_deserializer_to_file ==
  /\ CanCallApi
  /\ \E handle \in ApiHandles(des), output_path \in {"xml", "null"}, opens \in BOOLEAN, ub \in UBOutcomes :
       LET deserializer == DeserializerHandle(handle)
       IN  Returned("abx_deserializer_to_file", handle, output_path,
             IF deserializer.null
             THEN Return(set_error(ABX_ERROR_INVALID_HANDLE, "Invalid deserializer handle"))
             ELSE IF ApiPaths[output_path].null
             THEN Return(set_error(ABX_ERROR_NULL_POINTER, "output_path is null"))
             ELSE IF ~opens
             THEN Return(set_error(ABX_ERROR_WRITE_FAILED, "Failed to open output file"))
             ELSE [deser \in Any |->
                    [out |-> <<deser.mOut>>]
                      @@ Return(IF deser.thrown # NoError THEN handle_exception(deser.thrown)
                                ELSE Ok)
                  ][Decoded(deserializer.at.data, ub)])

abx_deserializer_to_string ==
  /\ CanCallApi
  /\ \E handle \in ApiHandles(des), out_buffer \in ApiBuffers, ub \in UBOutcomes :
       LET deserializer == DeserializerHandle(handle)
       IN  Returned("abx_deserializer_to_string", handle, "",
             IF deserializer.null
             THEN [code |-> <<>>, size |-> <<0>>,
                   g_last_error |->
                     set_error(ABX_ERROR_INVALID_HANDLE,
                               "Invalid deserializer handle").g_last_error]
             ELSE [deser \in Any |->
                    IF deser.thrown # NoError
                    THEN [code |-> <<>>, size |-> <<0>>,
                          g_last_error |-> handle_exception(deser.thrown).g_last_error]
                    ELSE [code |-> <<>>, g_last_error |-> clear_error,
                          size |-> <<Len(deser.mOut) + 1>>,
                          out |-> Copy(out_buffer, deser.mOut \o <<0>>)]
                  ][Decoded(deserializer.at.data, ub)])

abx_deserializer_free ==
  /\ CanCallApi
  /\ \E handle \in ApiHandles(des) :
       Returned("abx_deserializer_free", handle, "",
         [code |-> <<>>, g_last_error |-> g_last_error,
          deserializer |-> IF handle = "held" THEN nullptr ELSE des])

abx_convert_xml_file_to_abx_file ==
  /\ CanConvert
  /\ \E xml_path \in {"xml", "null"}, abx_path \in {"abx", "null"}, options \in ApiOptions,
        opens \in BOOLEAN, file \in XmlFiles :
       Returned("abx_convert_xml_file_to_abx_file", "", xml_path,
         IF ApiPaths[xml_path].null \/ ApiPaths[abx_path].null
         THEN Return(set_error(ABX_ERROR_NULL_POINTER, "Path is null"))
         ELSE IF ~opens
         THEN Return(set_error(ABX_ERROR_WRITE_FAILED, "Failed to open output file"))
         ELSE [s \in Any |->
                [out |-> <<s.output_stream>>]
                  @@ Return(IF s.thrown # NoError THEN handle_exception(s.thrown) ELSE Ok)
              ][convertXmlFileToAbx(ApiPaths[xml_path].at, file.doc, file.result, <<>>,
                                    Options(options))])

abx_convert_xml_string_to_abx_file ==
  /\ CanConvert
  /\ \E xml_string \in ApiXml \cup {nullptr}, abx_path \in {"abx", "null"},
        options \in ApiOptions, opens \in BOOLEAN :
       Returned("abx_convert_xml_string_to_abx_file", "", abx_path,
         IF "null" \in DOMAIN xml_string \/ ApiPaths[abx_path].null
         THEN Return(set_error(ABX_ERROR_NULL_POINTER, "Parameter is null"))
         ELSE IF ~opens
         THEN Return(set_error(ABX_ERROR_WRITE_FAILED, "Failed to open output file"))
         ELSE [s \in Any |->
                [out |-> <<s.output_stream>>]
                  @@ Return(IF s.thrown # NoError THEN handle_exception(s.thrown) ELSE Ok)
              ][convertXmlStringToAbx(xml_string.doc, xml_string.result, <<>>,
                                      Options(options))])

abx_convert_xml_file_to_buffer ==
  /\ CanConvert
  /\ \E xml_path \in {"xml", "null"}, out_buffer \in ApiBuffers, options \in ApiOptions,
        error \in BOOLEAN, file \in XmlFiles :
       Returned("abx_convert_xml_file_to_buffer", "", xml_path,
         IF ApiPaths[xml_path].null
         THEN [size |-> <<0>>]
                @@ Store(error, set_error(ABX_ERROR_NULL_POINTER, "xml_path is null"),
                         g_last_error)
         ELSE [s \in Any |->
                IF s.thrown # NoError
                THEN [size |-> <<0>>] @@ Store(error, handle_exception(s.thrown), clear_error)
                ELSE [size |-> <<Len(s.output_stream)>>,
                      out |-> Copy(out_buffer, s.output_stream)]
                       @@ Store(error, Ok, clear_error)
              ][convertXmlFileToAbx(ApiPaths[xml_path].at, file.doc, file.result, <<>>,
                                    Options(options))])

abx_convert_xml_string_to_buffer ==
  /\ CanConvert
  /\ \E xml_string \in ApiXml \cup {nullptr}, out_buffer \in ApiBuffers,
        options \in ApiOptions, error \in BOOLEAN :
       Returned("abx_convert_xml_string_to_buffer", "", "",
         IF "null" \in DOMAIN xml_string
         THEN [size |-> <<0>>]
                @@ Store(error, set_error(ABX_ERROR_NULL_POINTER, "xml_string is null"),
                         g_last_error)
         ELSE [s \in Any |->
                IF s.thrown # NoError
                THEN [size |-> <<0>>] @@ Store(error, handle_exception(s.thrown), clear_error)
                ELSE [size |-> <<Len(s.output_stream)>>,
                      out |-> Copy(out_buffer, s.output_stream)]
                       @@ Store(error, Ok, clear_error)
              ][convertXmlStringToAbx(xml_string.doc, xml_string.result, <<>>,
                                      Options(options))])

abx_convert_abx_file_to_xml_file ==
  /\ CanConvert
  /\ \E abx_path \in {"abx", "null"}, xml_path \in {"xml", "null"}, file \in AbxFiles,
        opens \in BOOLEAN, ub \in UBOutcomes :
       Returned("abx_convert_abx_file_to_xml_file", "", abx_path,
         IF ApiPaths[abx_path].null \/ ApiPaths[xml_path].null
         THEN Return(set_error(ABX_ERROR_NULL_POINTER, "Path is null"))
         ELSE IF file.null
         THEN Return(set_error(ABX_ERROR_FILE_NOT_FOUND, "Failed to open ABX file"))
         ELSE [d \in Any |->
                (IF d.opened THEN [out |-> <<d.mOut>>] ELSE <<>>)
                  @@ Return(IF d.thrown # NoError THEN handle_exception(d.thrown) ELSE Ok)
              ][convertAbxToXmlFile(file.at, ApiPaths[xml_path].at, opens, ub)])

abx_convert_abx_buffer_to_xml_file ==
  /\ CanConvert
  /\ \E abx_data \in AbxFiles, xml_path \in {"xml", "null"}, opens \in BOOLEAN,
        ub \in UBOutcomes :
       Returned("abx_convert_abx_buffer_to_xml_file", "", xml_path,
         IF abx_data.null \/ ApiPaths[xml_path].null
         THEN Return(set_error(ABX_ERROR_NULL_POINTER, "Parameter is null"))
         ELSE IF ~opens
         THEN Return(set_error(ABX_ERROR_WRITE_FAILED, "Failed to open output file"))
         ELSE [deser \in Any |->
                [out |-> <<deser.mOut>>]
                  @@ Return(IF deser.thrown # NoError THEN handle_exception(deser.thrown)
                            ELSE Ok)
              ][Decoded(abx_data.at, ub)])

abx_convert_abx_file_to_string ==
  /\ CanConvert
  /\ \E abx_path \in {"abx", "null"}, out_buffer \in ApiBuffers, error \in BOOLEAN,
        file \in AbxFiles, ub \in UBOutcomes :
       Returned("abx_convert_abx_file_to_string", "", abx_path,
         IF ApiPaths[abx_path].null
         THEN [size |-> <<0>>]
                @@ Store(error, set_error(ABX_ERROR_NULL_POINTER, "abx_path is null"),
                         g_last_error)
         ELSE IF file.null
         THEN [size |-> <<0>>]
                @@ Store(error, set_error(ABX_ERROR_FILE_NOT_FOUND,
                                          "Failed to open ABX file"), clear_error)
         ELSE [result \in Any |->
                IF result.thrown # NoError
                THEN [size |-> <<0>>]
                       @@ Store(error, handle_exception(result.thrown), clear_error)
                ELSE [size |-> <<Len(result.mOut) + 1>>,
                      out |-> Copy(out_buffer, result.mOut \o <<0>>)]
                       @@ Store(error, Ok, clear_error)
              ][convertAbxToXmlString(file.at, ub)])

abx_convert_abx_buffer_to_string ==
  /\ CanConvert
  /\ \E abx_data \in AbxFiles, out_buffer \in ApiBuffers, error \in BOOLEAN,
        ub \in UBOutcomes :
       Returned("abx_convert_abx_buffer_to_string", "", "",
         IF abx_data.null
         THEN [size |-> <<0>>]
                @@ Store(error, set_error(ABX_ERROR_NULL_POINTER, "abx_data is null"),
                         g_last_error)
         ELSE [result \in Any |->
                IF result.thrown # NoError
                THEN [size |-> <<0>>]
                       @@ Store(error, handle_exception(result.thrown), clear_error)
                ELSE [size |-> <<Len(result.mOut) + 1>>,
                      out |-> Copy(out_buffer, result.mOut \o <<0>>)]
                       @@ Store(error, Ok, clear_error)
              ][Decoded(abx_data.at, ub)])

abx_base64_encode ==
  /\ CanConvert
  /\ \E data \in DOMAIN ApiData, out \in ApiBuffers :
       Returned("abx_base64_encode", "", data,
         IF ApiData[data].null
         THEN [code |-> <<>>, size |-> <<0>>,
               g_last_error |-> set_error(ABX_ERROR_NULL_POINTER, "data is null").g_last_error]
         ELSE [encoded \in Any |->
                [code |-> <<>>, g_last_error |-> clear_error,
                 size |-> <<Len(encoded) + 1>>, out |-> Copy(out, encoded \o <<0>>)]
              ][base64_encode(ApiData[data].at)])

abx_base64_decode ==
  /\ CanConvert
  /\ \E encoded \in Base64Inputs, out \in ApiBuffers :
       Returned("abx_base64_decode", "", encoded,
         IF ApiEncoded[encoded].null
         THEN [code |-> <<>>, size |-> <<0>>,
               g_last_error |-> set_error(ABX_ERROR_NULL_POINTER, "encoded is null").g_last_error]
         ELSE [decoded \in Any |->
                [code |-> <<>>, g_last_error |-> clear_error,
                 size |-> <<Len(decoded)>>, out |-> Copy(out, decoded)]
              ][base64_decode(ApiEncoded[encoded].at)])

abx_hex_encode ==
  /\ CanConvert
  /\ \E data \in DOMAIN ApiData, out \in ApiBuffers :
       Returned("abx_hex_encode", "", data,
         IF ApiData[data].null
         THEN [code |-> <<>>, size |-> <<0>>,
               g_last_error |-> set_error(ABX_ERROR_NULL_POINTER, "data is null").g_last_error]
         ELSE [encoded \in Any |->
                [code |-> <<>>, g_last_error |-> clear_error,
                 size |-> <<Len(encoded) + 1>>, out |-> Copy(out, encoded \o <<0>>)]
              ][hex_encode(ApiData[data].at)])

abx_hex_decode ==
  /\ CanConvert
  /\ \E hex \in HexInputs, out \in ApiBuffers, what \in StoulWhat :
       Returned("abx_hex_decode", "", hex,
         IF ApiEncoded[hex].null
         THEN [code |-> <<>>, size |-> <<0>>,
               g_last_error |-> set_error(ABX_ERROR_NULL_POINTER, "hex is null").g_last_error]
         ELSE [decoded \in Any |->
                IF decoded.thrown # NoError
                THEN [code |-> <<>>, size |-> <<0>>,
                      g_last_error |-> handle_exception(decoded.thrown).g_last_error]
                ELSE [code |-> <<>>, g_last_error |-> clear_error,
                      size |-> <<Len(decoded.val)>>, out |-> Copy(out, decoded.val)]
              ][hex_decode(ApiEncoded[hex].at, what)])

NextApi ==
  \/ abx_serializer_create_file
  \/ abx_serializer_create_buffer
  \/ abx_serializer_start_document
  \/ abx_serializer_end_document
  \/ abx_serializer_start_tag
  \/ abx_serializer_end_tag
  \/ abx_serializer_attribute_string
  \/ abx_serializer_attribute_int
  \/ abx_serializer_attribute_int_hex
  \/ abx_serializer_attribute_long
  \/ abx_serializer_attribute_long_hex
  \/ abx_serializer_attribute_float
  \/ abx_serializer_attribute_double
  \/ abx_serializer_attribute_bool
  \/ abx_serializer_attribute_bytes_hex
  \/ abx_serializer_attribute_bytes_base64
  \/ abx_serializer_text
  \/ abx_serializer_cdata
  \/ abx_serializer_comment
  \/ abx_serializer_get_buffer
  \/ abx_serializer_free
  \/ abx_deserializer_create_file
  \/ abx_deserializer_create_buffer
  \/ abx_deserializer_to_file
  \/ abx_deserializer_to_string
  \/ abx_deserializer_free
  \/ abx_convert_xml_file_to_abx_file
  \/ abx_convert_xml_string_to_abx_file
  \/ abx_convert_xml_file_to_buffer
  \/ abx_convert_xml_string_to_buffer
  \/ abx_convert_abx_file_to_xml_file
  \/ abx_convert_abx_buffer_to_xml_file
  \/ abx_convert_abx_file_to_string
  \/ abx_convert_abx_buffer_to_string
  \/ abx_base64_encode
  \/ abx_base64_decode
  \/ abx_hex_encode
  \/ abx_hex_decode

SpecApi == InitApi /\ [][NextApi]_vars

(***************************************************************************)
(* Properties of the serializer calls.                                     *)
(***************************************************************************)
\* a step of the serializer: a call was made
Called == calls' # calls
LastCall == calls'[Len(calls')]
\* the bytes the step appended to the sink
Appended ==
  SubSeq(ser'.output_stream, Len(ser.output_stream) + 1, Len(ser'.output_stream))
AppendOnly ==
  /\ Len(ser'.output_stream) >= Len(ser.output_stream)
  /\ SubSeq(ser'.output_stream, 1, Len(ser.output_stream)) = ser.output_stream

U16(n) == <<n \div 256, n % 256>>
Sentinel == <<255, 255>>
Occurs(pool, s) == \E i \in 1..Len(pool) : pool[i] = s
FirstAt(pool, s) == CHOOSE i \in 1..Len(pool) : pool[i] = s /\ \A j \in 1..(i - 1) : pool[j] # s
\* the bytes of an interned string after the strings of pool were interned
InternedForm(pool, s) ==
  IF Occurs(pool, s) THEN U16(FirstAt(pool, s) - 1)
  ELSE Sentinel \o U16(Len(s)) \o s
PoolAfter(pool, s) == IF Occurs(pool, s) THEN pool ELSE Append(pool, s)

\* C2: the sink holds the magic when the serializer is constructed; every
\* call, failing or not, only appends to the sink, so the stream keeps
\* beginning with 41 42 58 00; no call appends bytes that begin with the
\* magic, and startDocument appends the single byte 0x10.
C2_MagicOnce ==
  /\ ser.output_stream = <<65, 66, 88, 0>>
  /\ [][Called =>
          /\ AppendOnly
          /\ SubSeq(ser'.output_stream, 1, 4) = <<65, 66, 88, 0>>
          /\ (Len(Appended) >= 4 => SubSeq(Appended, 1, 4) # <<65, 66, 88, 0>>)
          /\ (LastCall.op = "startDocument" => Appended = <<16>>)]_vars

\* startDocument was called twice and a call failed after it had written
C2_Witness ==
  /\ Len(calls) = 3
  /\ calls[1].op = "startDocument"
  /\ calls[2].op = "startDocument"
  /\ calls[3].thrown = StringTooLong
  /\ ser.output_stream = <<65, 66, 88, 0, 16, 16, 47, 255, 255, 0, 1, 120>>

\* C4: a call writes each interned string it is given as the sentinel 0xFFFF
\* and the length-prefixed string if the string was not interned before,
\* giving it the number of strings interned before it as index, and as that
\* index alone otherwise; the pool never holds a string twice, and calls that
\* intern nothing leave the pool alone.
AttributeOps ==
  {"attribute", "attributeBytesHex", "attributeBytesBase64", "attributeInt",
   "attributeIntHex", "attributeLong", "attributeLongHex", "attributeFloat",
   "attributeDouble", "attributeBoolean"}

C4_Interning ==
  /\ \A i, j \in 1..Len(ser.interned_strings) :
       ser.interned_strings[i] = ser.interned_strings[j] => i = j
  /\ DOMAIN ser.string_pool = {ser.interned_strings[i] : i \in 1..Len(ser.interned_strings)}
  /\ \A i \in 1..Len(ser.interned_strings) :
       ser.string_pool[ser.interned_strings[i]] = i - 1
  /\ [][Called =>
          LET pool == ser.interned_strings
              op == LastCall.op
              name == StringInput[LastCall.name]
              ref == InternedForm(pool, name)
          IN  CASE op = "startTag" \/ (op = "endTag" /\ ser'.thrown = NoError) ->
                     /\ Appended = <<(IF op = "startTag" THEN 50 ELSE 51)>> \o ref
                     /\ ser'.interned_strings = PoolAfter(pool, name)
                [] op = "attributeInterned" ->
                     LET value == StringInput[LastCall.value]
                     IN  /\ Appended = <<63>> \o ref
                                         \o InternedForm(PoolAfter(pool, name), value)
                         /\ ser'.interned_strings = PoolAfter(PoolAfter(pool, name), value)
                [] op \in AttributeOps ->
                     /\ Len(Appended) >= 1 + Len(ref)
                     /\ SubSeq(Appended, 2, 1 + Len(ref)) = ref
                     /\ ser'.interned_strings = PoolAfter(pool, name)
                [] OTHER -> ser'.interned_strings = pool]_vars

\* <a x="a"><a ...: "a" was introduced at index 0 by the first startTag, "x"
\* at index 1; the attribute value and the second startTag refer to index 0
C4_Witness ==
  /\ Len(calls) = 3
  /\ ser.interned_strings = <<<<97>>, <<120>>>>
  /\ ser.output_stream =
       <<65, 66, 88, 0, 50, 255, 255, 0, 1, 97, 63, 255, 255, 0, 1, 120, 0, 0, 50, 0, 0>>

\* C6: endTag(name) fails with UnbalancedEnd on an empty tag stack and with
\* TagMismatch when the top of the stack is not name, and in both cases
\* writes nothing and leaves the tag stack and the interning pool as they
\* were; otherwise it pops the stack and writes END_TAG|STRING_INTERNED and
\* the interned name.
C6_EndTag ==
  [][(Called /\ LastCall.op = "endTag") =>
       LET name == StringInput[LastCall.name]
       IN  IF ser.mTagCount = 0 \/ ser.mTagNames[ser.mTagCount] # name
           THEN /\ ser'.thrown = IF ser.mTagCount = 0 THEN UnbalancedEnd
                                ELSE TagMismatch(ser.mTagNames[ser.mTagCount], name)
                /\ ser'.output_stream = ser.output_stream
                /\ ser'.mTagCount = ser.mTagCount
                /\ ser'.mTagNames = ser.mTagNames
                /\ ser'.interned_strings = ser.interned_strings
                /\ ser'.string_pool = ser.string_pool
           ELSE /\ ser'.thrown = NoError
                /\ ser'.mTagCount = ser.mTagCount - 1
                /\ Appended = <<51>> \o InternedForm(ser.interned_strings, name)
                /\ AppendOnly]_vars

\* endTag("b") failed on the open tag "a", then endTag("a") closed it
C6_Witness ==
  /\ Len(calls) = 3
  /\ calls[1].op = "startTag" /\ calls[1].name = "a"
  /\ calls[2].op = "endTag" /\ calls[2].name = "b" /\ calls[2].thrown = TagMismatch(<<97>>, <<98>>)
  /\ calls[3].op = "endTag" /\ calls[3].name = "a" /\ calls[3].thrown = NoError
  /\ ser.mTagCount = 0
  /\ ser.output_stream = <<65, 66, 88, 0, 50, 255, 255, 0, 1, 97, 51, 0, 0>>

(***************************************************************************)
(* The calls read back: what a reader of the stream is to see.             *)
(***************************************************************************)
AllAttributeOps == AttributeOps \cup {"attributeInterned"}
AllSucceeded == \A i \in 1..Len(calls) : calls[i].thrown = NoError
\* attributes are written only directly after a startTag or another attribute
WellPlaced ==
  \A i \in 1..Len(calls) :
    calls[i].op \in AllAttributeOps =>
      i > 1 /\ calls[i - 1].op \in AllAttributeOps \cup {"startTag"}

\* the text of the value of an attribute call
ValueText(c) ==
  CASE c.op \in {"attribute", "attributeInterned"} ->
         encode_xml_entities(StringInput[c.value])
    [] c.op = "attributeBytesHex" -> bytesToHex(StringInput[c.value])
    [] c.op = "attributeBytesBase64" -> base64_encode(StringInput[c.value])
    [] c.op = "attributeInt" -> DecInt(c.value)
    [] c.op = "attributeIntHex" ->
         IF c.value = 0 - 1 THEN DecInt(c.value) ELSE HexOfBytes(IntBytes(c.value))
    [] c.op = "attributeLong" -> DecLong(LongInput[c.value])
    [] c.op = "attributeLongHex" ->
         IF IsMinusOne(LongInput[c.value]) THEN DecLong(LongInput[c.value])
         ELSE HexOfBytes(LongInput[c.value])
    [] c.op = "attributeFloat" -> FloatText(FloatInput, "saturate")
    [] c.op = "attributeDouble" -> DoubleText(DoubleInput, "saturate")
    [] c.op = "attributeBoolean" ->
         IF c.value THEN <<116, 114, 117, 101>> ELSE <<102, 97, 108, 115, 101>>

\* the XML text of one call
CallText(c) ==
  CASE c.op = "startTag" -> <<60>> \o StringInput[c.name]
    [] c.op = "endTag" -> <<60, 47>> \o StringInput[c.name] \o <<62>>
    [] c.op \in AllAttributeOps ->
         <<32>> \o StringInput[c.name] \o <<61, 34>> \o ValueText(c) \o <<34>>
    [] c.op = "text" -> encode_xml_entities(StringInput[c.value])
    [] c.op = "cdsect" ->
         <<60, 33, 91, 67, 68, 65, 84, 65, 91>> \o StringInput[c.value] \o <<93, 93, 62>>
    [] c.op = "comment" -> <<60, 33, 45, 45>> \o StringInput[c.value] \o <<45, 45, 62>>
    [] c.op = "processingInstruction" ->
         <<60, 63>> \o StringInput[c.name]
           \o (IF StringInput[c.value] = <<>> THEN <<>> ELSE <<32>> \o StringInput[c.value])
           \o <<63, 62>>
    [] c.op = "docdecl" ->
         <<60, 33, 68, 79, 67, 84, 89, 80, 69, 32>> \o StringInput[c.value] \o <<62>>
    [] c.op = "entityRef" -> <<38>> \o StringInput[c.value] \o <<59>>
    [] c.op = "ignorableWhitespace" -> StringInput[c.value]
    [] OTHER -> <<>>

\* the strings a call interns, in the order it passes them to the writer
CallInterns(c) ==
  CASE c.op \in {"startTag", "endTag"} \cup AttributeOps -> <<StringInput[c.name]>>
    [] c.op = "attributeInterned" -> <<StringInput[c.name], StringInput[c.value]>>
    [] OTHER -> <<>>

RECURSIVE PoolOfAll(_, _)
PoolOfAll(pool, strs) ==
  IF strs = <<>> THEN pool ELSE PoolOfAll(PoolAfter(pool, Head(strs)), Tail(strs))

\* the XML text and the pool of the calls from the i-th on, up to the first
\* endDocument; a start tag is closed after its last attribute
RECURSIVE ReadBack(_, _, _)
ReadBack(cs, i, acc) ==
  IF i > Len(cs) \/ cs[i].op = "endDocument" THEN acc
  ELSE LET closes == /\ cs[i].op \in AllAttributeOps \cup {"startTag"}
                     /\ (i = Len(cs) \/ cs[i + 1].op \notin AllAttributeOps)
       IN  ReadBack(cs, i + 1,
                    [text |-> acc.text \o CallText(cs[i])
                                \o (IF closes THEN <<62>> ELSE <<>>),
                     pool |-> PoolOfAll(acc.pool, CallInterns(cs[i]))])

\* C5: when every call succeeded and attributes were written only directly
\* after a startTag or another attribute, deserialize() returns, the i-th
\* string of the reader's pool is the i-th string of the writer's pool, the
\* reader's pool holds the strings interned by the calls it read, and every
\* name and interned value in the XML text is the string the writer was given
\* at that position.
C5_PoolAgreement ==
  (phase = "read" /\ AllSucceeded /\ WellPlaced) =>
     /\ des.status # "failed"
     /\ Len(des.interned_strings) <= Len(ser.interned_strings)
     /\ \A i \in 1..Len(des.interned_strings) :
          des.interned_strings[i] = ser.interned_strings[i]
     /\ des.status = "returned" =>
          LET seen == ReadBack(calls, 1, [text |-> <<>>, pool |-> <<>>])
          IN  /\ des.interned_strings = seen.pool
              /\ des.mOut = seen.text

\* <a x="a"></a> read back: the reader's pool is the writer's, and the end
\* tag and the attribute value were resolved through index 0
C5_Witness ==
  /\ phase = "read"
  /\ des.status = "returned"
  /\ AllSucceeded
  /\ Len(calls) = 3
  /\ calls[2].op = "attributeInterned"
  /\ calls[3].op = "endTag"
  /\ des.interned_strings = <<<<97>>, <<120>>>>
  /\ ser.interned_strings = <<<<97>>, <<120>>>>
  /\ des.mOut = <<60, 97, 32, 120, 61, 34, 97, 34, 62, 60, 47, 97, 62>>

(***************************************************************************)
(* Properties of the deserializer on arbitrary input.                      *)
(***************************************************************************)
MagicMissing == Len(input) < 4 \/ SubSeq(input, 1, 4) # <<65, 66, 88, 0>>

\* C3 as stated: whenever the input does not begin with 41 42 58 00, fewer
\* than four bytes included, the constructor fails with BadMagic and nothing
\* is written to the XML sink.
C3_AsStated ==
  (phase = "read" /\ MagicMissing) =>
     /\ des.status = "failed"
     /\ des.thrown = BadMagic
     /\ des.mOut = <<>>

\* C3: when the input has four bytes that are not 41 42 58 00 the constructor
\* fails with BadMagic; when the input has fewer than four bytes it fails
\* with the read error of readByte; in both cases no byte after the fourth
\* is read, nothing is interned and nothing is written to the XML sink.
C3_BadMagic ==
  (phase = "read" /\ MagicMissing) =>
     /\ des.status = "failed"
     /\ des.thrown = (IF Len(input) < 4 THEN ReadByteFailed ELSE BadMagic)
     /\ des.pos <= 4
     /\ des.interned_strings = <<>>
     /\ des.mOut = <<>>

\* the input 41 42 58 01 11 was rejected after its fourth byte
C3_Witness ==
  /\ phase = "read"
  /\ input = <<65, 66, 88, 1, 17>>
  /\ des.status = "failed"
  /\ des.thrown = BadMagic
  /\ des.pos = 4

(***************************************************************************)
(* The records of a stream, read strictly: every token with the payload    *)
(* its command and type call for.                                          *)
(***************************************************************************)
\* the reader at the first token of the stream bytes
ReaderAt(bytes, pos) ==
  [data |-> bytes, pos |-> pos, eofbit |-> FALSE, failbit |-> FALSE,
   interned_strings |-> <<>>, mOut |-> <<>>, cerr |-> <<>>, thrown |-> NoError,
   val |-> 0, returned |-> FALSE, status |-> "constructed"]

\* the payload of a token of the given type, as the bytes or string read
TypedPayload(d, type) ==
  CASE type \in {TYPE_STRING} -> readUTF(d)
    [] type = TYPE_STRING_INTERNED -> readInternedUTF(d)
    [] type \in {TYPE_INT, TYPE_INT_HEX, TYPE_FLOAT} -> readBytes(d, 4)
    [] type \in {TYPE_LONG, TYPE_LONG_HEX, TYPE_DOUBLE} -> readBytes(d, 8)
    [] type \in {TYPE_BYTES_HEX, TYPE_BYTES_BASE64} ->
         LET l == readShort(d) IN readBytes(l, intval(l))
    [] OTHER -> [d EXCEPT !.val = <<>>]

\* one record: the reader after it and [command, type, name, value]
ReadRecord(d) ==
  LET t == readByte(d)
      command == CommandOf(intval(t))
      type == TypeOf(intval(t))
      named == command \in {START_TAG, END_TAG, ATTRIBUTE}
      n == IF named THEN readInternedUTF(t) ELSE [t EXCEPT !.val = <<>>]
      v == IF command = ATTRIBUTE THEN TypedPayload(n, type)
           ELSE IF ~named /\ type = TYPE_STRING THEN readUTF(n)
                ELSE [n EXCEPT !.val = <<>>]
  IN  [d |-> v,
       rec |-> [command |-> command, type |-> type, name |-> strval(n),
                value |-> strval(v)]]

\* the records from the reader's position to the end of the stream; ok is
\* FALSE when the stream ends inside a record or a reference is unknown
RECURSIVE ReadRecords(_, _)
ReadRecords(d, acc) ==
  IF d.pos >= Len(d.data) THEN [ok |-> TRUE, records |-> acc]
  ELSE LET r == ReadRecord(d)
       IN  IF r.d.thrown # NoError THEN [ok |-> FALSE, records |-> acc]
           ELSE ReadRecords(r.d, Append(acc, r.rec))

ParseStream(bytes) ==
  IF Len(bytes) < 4 \/ SubSeq(bytes, 1, 4) # <<65, 66, 88, 0>>
  THEN [ok |-> FALSE, records |-> <<>>]
  ELSE ReadRecords(ReaderAt(bytes, 4), <<>>)

\* a conversion was made, by convertXmlStringToAbx or through the low-level
\* API, and it succeeded
Converted == phase \in {"written", "read"} /\ Len(calls) = 1
             /\ calls[1].op \in {"convertXmlStringToAbx", "serializeXmlToAbx"}
             /\ calls[1].thrown = NoError

\* C8: the stream of a conversion is the magic, then the byte 0x10, then
\* records none of which is a START_DOCUMENT or END_DOCUMENT token, then the
\* byte 0x11 as the last byte of the stream.
C8_DocumentFrame ==
  Converted =>
    LET out == ser.output_stream
        p == ParseStream(out)
        n == Len(p.records)
    IN  /\ p.ok
        /\ n >= 2
        /\ out[5] = 16
        /\ out[Len(out)] = 17
        /\ p.records[1].command = START_DOCUMENT /\ p.records[1].type = TYPE_NULL
        /\ p.records[n].command = END_DOCUMENT /\ p.records[n].type = TYPE_NULL
        /\ \A i \in 2..(n - 1) : p.records[i].command \notin {START_DOCUMENT, END_DOCUMENT}

\* <a/><b>t</b> converted by convertXmlStringToAbx: two children of the
\* document, one frame
C8_Witness ==
  /\ Converted
  /\ calls[1].op = "convertXmlStringToAbx"
  /\ Len(dom.nodes) = 3
  /\ dom.nodes[1].type = "element" /\ dom.nodes[2].type = "element"
  /\ dom.nodes[2].parent = 0
  /\ dom.nodes[3].type = "pcdata" /\ dom.nodes[3].parent = 2
  /\ Len(ParseStream(ser.output_stream).records) = 7

\* the indices of the START_TAG records, and of the elements of the document
StartTags(records) ==
  LET S == {i \in 1..Len(records) : records[i].command = START_TAG}
  IN  [k \in 1..Cardinality(S) |-> Nth(S, k)]
ElementsOf(nodes) ==
  LET S == {i \in 1..Len(nodes) : nodes[i].type = "element"}
  IN  [k \in 1..Cardinality(S) |-> Nth(S, k)]

\* C9: in the stream of a conversion every ATTRIBUTE record directly follows
\* a START_TAG or another ATTRIBUTE record; the records that directly follow
\* the START_TAG of an element are one ATTRIBUTE record per attribute of the
\* element, with the names and values of the attributes in their order in
\* the document, and then a record that is no ATTRIBUTE; so no ATTRIBUTE
\* record follows a text, CDATA, comment, PI or child record.
C9_AttributePlacement ==
  Converted =>
    LET recs == ParseStream(ser.output_stream).records
        tags == StartTags(recs)
        elems == ElementsOf(dom.nodes)
    IN  /\ \A i \in 1..Len(recs) :
             recs[i].command = ATTRIBUTE =>
               i > 1 /\ recs[i - 1].command \in {START_TAG, ATTRIBUTE}
        /\ Len(tags) = Len(elems)
        /\ \A k \in 1..Len(tags) :
             LET attrs == dom.nodes[elems[k]].attrs
                 at == tags[k]
             IN  /\ recs[at].name = dom.nodes[elems[k]].name
                 /\ at + Len(attrs) < Len(recs)
                 /\ \A j \in 1..Len(attrs) :
                      /\ recs[at + j].command = ATTRIBUTE
                      /\ recs[at + j].name = attrs[j].name
                      /\ recs[at + j].type \in {TYPE_STRING, TYPE_STRING_INTERNED} =>
                           recs[at + j].value = attrs[j].value
                 /\ recs[at + Len(attrs) + 1].command # ATTRIBUTE

\* <a y="a" x="&quot; &amp;"> converted: y before x, as in the document
C9_Witness ==
  /\ Converted
  /\ Len(dom.nodes) = 1
  /\ dom.nodes[1].attrs = <<[name |-> <<121>>, value |-> <<97>>],
                            [name |-> <<120>>, value |-> <<34, 32, 38>>]>>
  /\ ser.output_stream =
       <<65, 66, 88, 0, 16, 50, 255, 255, 0, 1, 97, 63, 255, 255, 0, 1, 121, 0, 0,
         47, 255, 255, 0, 1, 120, 0, 3, 34, 32, 38, 51, 0, 0, 17>>

(***************************************************************************)
(* Tag nesting.                                                            *)
(***************************************************************************)
\* the open tags after the successful startTag and endTag calls among cs from
\* the i-th on; ok is FALSE if an endTag succeeded on no open tag or on
\* another name than the last opened
RECURSIVE CallNesting(_, _, _)
CallNesting(cs, i, stack) ==
  IF i > Len(cs) THEN [ok |-> TRUE, stack |-> stack]
  ELSE IF cs[i].thrown # NoError \/ cs[i].op \notin {"startTag", "endTag"}
       THEN CallNesting(cs, i + 1, stack)
       ELSE IF cs[i].op = "startTag"
            THEN CallNesting(cs, i + 1, Append(stack, StringInput[cs[i].name]))
            ELSE IF stack = <<>> \/ stack[Len(stack)] # StringInput[cs[i].name]
                 THEN [ok |-> FALSE, stack |-> stack]
                 ELSE CallNesting(cs, i + 1, SubSeq(stack, 1, Len(stack) - 1))

\* the same for the START_TAG and END_TAG records of a stream
RECURSIVE RecordNesting(_, _, _)
RecordNesting(recs, i, stack) ==
  IF i > Len(recs) THEN [ok |-> TRUE, stack |-> stack]
  ELSE IF recs[i].command = START_TAG
       THEN RecordNesting(recs, i + 1, Append(stack, recs[i].name))
       ELSE IF recs[i].command = END_TAG
            THEN IF stack = <<>> \/ stack[Len(stack)] # recs[i].name
                 THEN [ok |-> FALSE, stack |-> stack]
                 ELSE RecordNesting(recs, i + 1, SubSeq(stack, 1, Len(stack) - 1))
            ELSE RecordNesting(recs, i + 1, stack)

\* no call stopped in the middle of a record
WholeRecords ==
  \A i \in 1..Len(calls) :
    calls[i].thrown \in
      {NoError, UnbalancedEnd}
        \cup {TagMismatch(StringInput[e], StringInput[g]) : e \in TagNames, g \in TagNames}

\* C7: every endTag call that succeeds closes the most recent startTag not
\* yet closed and has its name, so the depth is never negative, and the tag
\* stack of the serializer holds the open tags; the END_TAG records of the
\* stream close the START_TAG records in the same way; after a conversion
\* every START_TAG record is closed and the depth is 0 at the END_DOCUMENT
\* record that ends the stream.
C7_TagNesting ==
  LET open == CallNesting(calls, 1, <<>>)
      p == ParseStream(ser.output_stream)
      nest == RecordNesting(p.records, 1, <<>>)
  IN  /\ open.ok
      /\ ser.mTagCount >= 0
      /\ (~Converted /\ phase # "parse") =>
           /\ ser.mTagCount = Len(open.stack)
           /\ SubSeq(ser.mTagNames, 1, ser.mTagCount) = open.stack
           /\ WholeRecords => (p.ok /\ nest.ok /\ nest.stack = open.stack)
      /\ Converted =>
           /\ p.ok /\ nest.ok /\ nest.stack = <<>>
           /\ ser.mTagCount = 0
           /\ p.records[Len(p.records)].command = END_DOCUMENT
           /\ Cardinality({i \in 1..Len(p.records) : p.records[i].command = START_TAG})
                = Cardinality({i \in 1..Len(p.records) : p.records[i].command = END_TAG})

\* startTag("a"), startTag("b"), endTag("b"): the inner tag was closed, "a"
\* is open
C7_Witness ==
  /\ Len(calls) = 3
  /\ calls[1].op = "startTag" /\ calls[1].name = "a"
  /\ calls[2].op = "startTag" /\ calls[2].name = "b"
  /\ calls[3].op = "endTag" /\ calls[3].name = "b" /\ calls[3].thrown = NoError
  /\ ser.mTagCount = 1
  /\ ser.mTagNames[1] = <<97>>
  /\ ser.output_stream =
       <<65, 66, 88, 0, 50, 255, 255, 0, 1, 97, 50, 255, 255, 0, 1, 98, 51, 0, 1>>

(***************************************************************************)
(* XML text read back as events: what an XML parser makes of the text the  *)
(* deserializer wrote.  An event is [kind, name, value, attrs].            *)
(***************************************************************************)
Event(kind, name, value, attrs) ==
  [kind |-> kind, name |-> name, value |-> value, attrs |-> attrs]

\* the first position from i on where pat occurs in str; Len(str) + 1 if none
FindFrom(str, pat, i) ==
  LET hits == {j \in i..(Len(str) - Len(pat) + 1) : SubSeq(str, j, j + Len(pat) - 1) = pat}
  IN  IF hits = {} THEN Len(str) + 1 ELSE Nth(hits, 1)

StartsAt(str, pat, i) ==
  i + Len(pat) - 1 <= Len(str) /\ SubSeq(str, i, i + Len(pat) - 1) = pat

\* the five predefined entities
Entities ==
  { [text |-> <<38, 97, 109, 112, 59>>, char |-> 38],
    [text |-> <<38, 108, 116, 59>>, char |-> 60],
    [text |-> <<38, 103, 116, 59>>, char |-> 62],
    [text |-> <<38, 113, 117, 111, 116, 59>>, char |-> 34],
    [text |-> <<38, 97, 112, 111, 115, 59>>, char |-> 39] }

RECURSIVE Unescape(_, _)
Unescape(str, i) ==
  IF i > Len(str) THEN <<>>
  ELSE LET es == {e \in Entities : StartsAt(str, e.text, i)}
       IN  IF es = {} THEN <<str[i]>> \o Unescape(str, i + 1)
           ELSE LET e == CHOOSE e \in es : TRUE
                IN  <<e.char>> \o Unescape(str, i + Len(e.text))

\* the attributes of a start tag from position i on, and the position after
\* the > that ends the tag
RECURSIVE ReadAttributes(_, _, _)
ReadAttributes(str, i, acc) ==
  IF i > Len(str) \/ str[i] # 32 THEN [attrs |-> acc, next |-> i + 1]
  ELSE LET eq == FindFrom(str, <<61, 34>>, i + 1)
           quote == FindFrom(str, <<34>>, eq + 2)
       IN  IF quote > Len(str) THEN [attrs |-> acc, next |-> Len(str) + 1]
           ELSE ReadAttributes(str, quote + 1,
                  Append(acc, [name |-> SubSeq(str, i + 1, eq - 1),
                               value |-> Unescape(SubSeq(str, eq + 2, quote - 1), 1)]))

\* the event at position i and the position after it
ReadEvent(str, i) ==
  IF str[i] # 60
  THEN LET end == FindFrom(str, <<60>>, i)
       IN  [event |-> Event("text", <<>>, Unescape(SubSeq(str, i, end - 1), 1), <<>>),
            next |-> end]
  ELSE IF StartsAt(str, <<60, 47>>, i)
  THEN LET end == FindFrom(str, <<62>>, i)
       IN  [event |-> Event("end", SubSeq(str, i + 2, end - 1), <<>>, <<>>),
            next |-> end + 1]
  ELSE IF StartsAt(str, <<60, 33, 45, 45>>, i)
  THEN LET end == FindFrom(str, <<45, 45, 62>>, i + 4)
       IN  [event |-> Event("comment", <<>>, SubSeq(str, i + 4, end - 1), <<>>),
            next |-> end + 3]
  ELSE IF StartsAt(str, <<60, 33, 91, 67, 68, 65, 84, 65, 91>>, i)
  THEN LET end == FindFrom(str, <<93, 93, 62>>, i + 9)
       IN  [event |-> Event("cdata", <<>>, SubSeq(str, i + 9, end - 1), <<>>),
            next |-> end + 3]
  ELSE IF StartsAt(str, <<60, 33, 68, 79, 67, 84, 89, 80, 69, 32>>, i)
  THEN LET end == FindFrom(str, <<62>>, i + 10)
       IN  [event |-> Event("doctype", <<>>, SubSeq(str, i + 10, end - 1), <<>>),
            next |-> end + 1]
  ELSE IF StartsAt(str, <<60, 63>>, i)
  THEN LET end == FindFrom(str, <<63, 62>>, i + 2)
           body == SubSeq(str, i + 2, end - 1)
           sp == FindFrom(body, <<32>>, 1)
       IN  [event |-> Event("pi", SubSeq(body, 1, sp - 1),
                            SubSeq(body, sp + 1, Len(body)), <<>>),
            next |-> end + 2]
  ELSE LET sp == FindFrom(str, <<32>>, i)
           gt == FindFrom(str, <<62>>, i)
           nameEnd == IF sp < gt THEN sp ELSE gt
           a == ReadAttributes(str, nameEnd, <<>>)
       IN  [event |-> Event("start", SubSeq(str, i + 1, nameEnd - 1), <<>>, a.attrs),
            next |-> a.next]

\* character data that reaches the reader of the document in pieces is one text
AppendEvent(events, e) ==
  IF e.kind = "text" /\ events # <<>> /\ events[Len(events)].kind = "text"
  THEN [events EXCEPT ![Len(events)].value = @ \o e.value]
  ELSE IF e.kind = "text" /\ e.value = <<>> THEN events
       ELSE Append(events, e)

RECURSIVE XmlEvents(_, _, _)
XmlEvents(str, i, acc) ==
  IF i > Len(str) THEN acc
  ELSE LET r == ReadEvent(str, i)
       IN  XmlEvents(str, r.next, AppendEvent(acc, r.event))

\* the events of the nodes kids[k..] of the document and of all below them;
\* whitespace-only text is left out when collapse is TRUE
RECURSIVE DomEvents(_, _, _, _, _)
DomEvents(nodes, kids, k, collapse, acc) ==
  IF k > Len(kids) THEN acc
  ELSE LET node == nodes[kids[k]]
           here ==
             CASE node.type = "element" ->
                    Append(DomEvents(nodes, children(nodes, kids[k]), 1, collapse,
                                     Append(acc, Event("start", node.name, <<>>, node.attrs))),
                           Event("end", node.name, <<>>, <<>>))
               [] node.type = "pcdata" ->
                    IF collapse /\ is_whitespace_only(node.value) THEN acc
                    ELSE AppendEvent(acc, Event("text", <<>>, node.value, <<>>))
               [] node.type = "pi" -> Append(acc, Event("pi", node.name, node.value, <<>>))
               [] OTHER -> Append(acc, Event(node.type, <<>>, node.value, <<>>))
       IN  DomEvents(nodes, kids, k + 1, collapse, here)

\* no typed inference predicate matches an attribute value of the document
PlainAttributes(nodes) ==
  \A i \in 1..Len(nodes) : \A j \in 1..Len(nodes[i].attrs) :
    LET v == nodes[i].attrs[j].value
    IN  ~is_boolean(v) /\ ~is_hex_number(v) /\ ~is_numeric(v) /\ ~is_float(v)

\* C1: for a document whose attribute values are plain strings (and which
\* has no XML declaration node), reading the stream of its conversion back
\* succeeds and gives XML text with the elements, attribute names and values
\* and text of the document, in order; with collapse_whitespaces on, of the
\* document without its whitespace-only text nodes.
C1_RoundTrip ==
  (Converted /\ phase = "read" /\ PlainAttributes(dom.nodes)
     /\ \A i \in 1..Len(dom.nodes) : dom.nodes[i].type # "declaration") =>
    /\ des.status # "failed"
    /\ des.status = "returned" =>
         XmlEvents(des.mOut, 1, <<>>)
           = DomEvents(dom.nodes, children(dom.nodes, 0), 1, calls[1].value, <<>>)

\* <a x="&quot; &amp;">&lt;&amp;</a> read back
C1_Witness ==
  /\ Converted
  /\ phase = "read"
  /\ des.status = "returned"
  /\ Len(dom.nodes) = 2
  /\ dom.nodes[1].attrs = <<[name |-> <<120>>, value |-> <<34, 32, 38>>]>>
  /\ dom.nodes[2].type = "pcdata" /\ dom.nodes[2].value = <<60, 38>>
  /\ dom.nodes[2].parent = 1
  /\ des.mOut = <<60, 97, 32, 120, 61, 34, 38, 113, 117, 111, 116, 59, 32, 38, 97,
                  109, 112, 59, 34, 62, 38, 108, 116, 59, 38, 97, 109, 112, 59,
                  60, 47, 97, 62>>

(***************************************************************************)
(* Type inference.                                                         *)
(***************************************************************************)
\* the types of the predicates of the inference, by their place in the order
FamilyTypes(v) ==
  << IF v = <<116, 114, 117, 101>> THEN {TYPE_BOOLEAN_TRUE} ELSE {TYPE_BOOLEAN_FALSE},
     {TYPE_INT_HEX, TYPE_LONG_HEX},
     {TYPE_INT, TYPE_LONG},
     {TYPE_FLOAT},
     {TYPE_STRING_INTERNED},
     {TYPE_STRING} >>

\* does the k-th predicate match v; parses tells whether the numeric parse of
\* a value has to succeed for its predicate to match
Matches(v, k, parses) ==
  CASE k = 1 -> is_boolean(v)
    [] k = 2 -> /\ is_hex_number(v)
                /\ parses => (IF Len(v) <= 10 THEN stoi(v, 16).thrown = NoError
                              ELSE stoll(v, 16).thrown = NoError)
    [] k = 3 -> /\ is_numeric(v) /\ Len(v) < 15
                /\ parses => stoll(v, 10).thrown = NoError
    [] k = 4 -> /\ is_float(v) /\ ~is_hex_string(v) /\ Len(v) < 20
                /\ parses => stof(v).thrown = NoError
    [] k = 5 -> Len(v) < 50 /\ IndexOf(v, 32) = 0 /\ IndexOf(v, 45) = 0
    [] OTHER -> TRUE

FirstMatch(v, parses) ==
  CHOOSE k \in 1..6 : Matches(v, k, parses) /\ \A j \in 1..(k - 1) : ~Matches(v, j, parses)

\* C10 as stated: the value of an attribute is encoded as one ATTRIBUTE
\* record of a type of the earliest predicate that matches it, in the order
\* boolean, hex integer, decimal integer, float, interned short string,
\* default string, whether or not a predicate whose numeric parse fails
\* counts as matching; the type is never NULL.
C10_AsStated ==
  (Converted /\ Len(dom.nodes) = 1 /\ Len(dom.nodes[1].attrs) = 2) =>
    LET v == dom.nodes[1].attrs[1].value
        recs == ParseStream(ser.output_stream).records
    IN  /\ Len(recs) = 6
        /\ recs[3].command = ATTRIBUTE /\ recs[3].name = <<120>>
        /\ recs[4].command = ATTRIBUTE /\ recs[4].name = <<121>>
        /\ recs[4].type = TYPE_INT
        /\ recs[3].type # TYPE_NULL
        /\ recs[3].type \in FamilyTypes(v)[FirstMatch(v, FALSE)]
                              \cup FamilyTypes(v)[FirstMatch(v, TRUE)]

(***************************************************************************)
(* The type inference, pattern by pattern.  The patterns are those of the  *)
(* specification, written out over the characters of the value.            *)
(***************************************************************************)
IsDigit(c) == c \in 48..57
IsHexDigit(c) == c \in (48..57) \cup (65..70) \cup (97..102)
Unsigned(v) == IF v # <<>> /\ v[1] = 45 THEN Tail(v) ELSE v
\* ^-?0[xX][0-9a-fA-F]+$
HexPattern(v) ==
  LET u == Unsigned(v)
  IN  /\ Len(u) >= 3
      /\ u[1] = 48
      /\ u[2] \in {120, 88}
      /\ \A i \in 3..Len(u) : IsHexDigit(u[i])
\* ^-?[0-9]+$
DecimalPattern(v) ==
  LET u == Unsigned(v)
  IN  u # <<>> /\ \A i \in 1..Len(u) : IsDigit(u[i])
\* ^-?[0-9]+\.[0-9]+$
FloatPattern(v) ==
  LET u == Unsigned(v)
  IN  \E d \in 2..(Len(u) - 1) :
        /\ u[d] = 46
        /\ \A i \in 1..Len(u) : i # d => IsDigit(u[i])

\* convertXmlStringToAbx converted <a x="V" y="42"/>
Inferred ==
  /\ Converted
  /\ calls[1].thrown = NoError
  /\ Len(dom.nodes) = 1
  /\ Len(dom.nodes[1].attrs) = 2
InferValue == dom.nodes[1].attrs[1].value
\* the record of x: the stream is START_DOCUMENT, START_TAG, x, y, END_TAG,
\* END_DOCUMENT
InferRecord == ParseStream(ser.output_stream).records[3]
\* the type the string predicates give
StringType(v) ==
  IF Len(v) < 50 /\ \A i \in 1..Len(v) : v[i] # 32 /\ v[i] # 45
  THEN TYPE_STRING_INTERNED ELSE TYPE_STRING

\* C11 as stated: a value of the hex pattern is an INT_HEX record when it
\* has at most 8 hex digits and a LONG_HEX record when it has more, or,
\* should its numeric parse fail, a record of the type the later predicates
\* give it (none of the decimal and float patterns matches a value with an
\* x, so that is the type the string predicates give).
C11_AsStated ==
  (Inferred /\ HexPattern(InferValue) /\ ~is_boolean(InferValue)) =>
    /\ InferRecord.command = ATTRIBUTE
    /\ InferRecord.name = <<120>>
    /\ InferRecord.type \in
         {IF Len(Unsigned(InferValue)) - 2 <= 8 THEN TYPE_INT_HEX ELSE TYPE_LONG_HEX,
          StringType(InferValue)}

\* the digits of v without its sign and its leading zeros
Significant(v) ==
  LET u == Unsigned(v)
      z == CHOOSE k \in 0..Len(u) :
             /\ \A i \in 1..k : u[i] = 48
             /\ k < Len(u) => u[k + 1] # 48
  IN  SubSeq(u, z + 1, Len(u))
\* a <= b for digit strings of the same length
DigitsLE(a, b) ==
  \/ a = b
  \/ \E i \in 1..Len(a) : a[i] < b[i] /\ \A j \in 1..(i - 1) : a[j] = b[j]
\* the decimal number v is in -2^31 .. 2^31 - 1
FitsInt32(v) ==
  LET u == Significant(v)
  IN  \/ Len(u) < 10
      \/ /\ Len(u) = 10
         /\ DigitsLE(u, IF v[1] = 45 THEN <<50, 49, 52, 55, 52, 56, 51, 54, 52, 56>>
                        ELSE <<50, 49, 52, 55, 52, 56, 51, 54, 52, 55>>)
\* the n big-endian bytes of 10 * bs + d, for n bytes bs
TimesTenPlus(bs, d) ==
  LET n == Len(bs)
      carry[i \in 0..n] ==
        IF i = 0 THEN d ELSE (bs[n - i + 1] * 10 + carry[i - 1]) \div 256
  IN  [i \in 1..n |-> (bs[i] * 10 + carry[n - i]) % 256]
\* the n big-endian bytes of 2^(8n) - bs
Complement(bs) ==
  LET n == Len(bs)
      carry[i \in 0..n] ==
        IF i = 0 THEN 1 ELSE ((255 - bs[n - i + 1]) + carry[i - 1]) \div 256
  IN  [i \in 1..n |-> ((255 - bs[i]) + carry[n - i]) % 256]
\* the decimal number v as n bytes in two's complement
DecimalBytes(v, n) ==
  LET u == Unsigned(v)
      upTo[k \in 0..Len(u)] ==
        IF k = 0 THEN [i \in 1..n |-> 0]
        ELSE TimesTenPlus(upTo[k - 1], u[k] - 48)
  IN  IF v[1] = 45 THEN Complement(upTo[Len(u)]) ELSE upTo[Len(u)]

\* C12: a value of the decimal pattern that is shorter than 15 characters
\* is an INT record holding its value when the value is in the range of a
\* signed 32-bit integer, and a LONG record holding its value otherwise; one
\* of 15 characters or more is a record of the type the string predicates
\* give, holding the characters.
C12_Decimal ==
  (Inferred /\ DecimalPattern(InferValue)) =>
    /\ InferRecord.command = ATTRIBUTE
    /\ InferRecord.name = <<120>>
    /\ IF Len(InferValue) >= 15
       THEN /\ InferRecord.type = StringType(InferValue)
            /\ InferRecord.value = InferValue
       ELSE IF FitsInt32(InferValue)
            THEN /\ InferRecord.type = TYPE_INT
                 /\ InferRecord.value = DecimalBytes(InferValue, 4)
            ELSE /\ InferRecord.type = TYPE_LONG
                 /\ InferRecord.value = DecimalBytes(InferValue, 8)

\* x="2147483648", the first number that is not an INT, became a LONG
C12_Witness ==
  /\ Inferred
  /\ InferValue = <<50, 49, 52, 55, 52, 56, 51, 54, 52, 56>>
  /\ InferRecord.type = TYPE_LONG
  /\ InferRecord.value = <<0, 0, 0, 0, 128, 0, 0, 0>>

\* neither the boolean, nor the hex, nor the decimal predicate or pattern
\* matches v
NotAnInteger(v) ==
  /\ ~is_boolean(v)
  /\ ~HexPattern(v) /\ ~is_hex_number(v)
  /\ ~DecimalPattern(v) /\ ~is_numeric(v)

\* C13 as stated: a value that the boolean, hex and decimal predicates do
\* not match and that is not of the float pattern (a minus sign or none, a
\* digit or more, one dot, a digit or more) is a record of a string type.
C13_AsStated ==
  (Inferred /\ NotAnInteger(InferValue) /\ ~FloatPattern(InferValue)) =>
    /\ InferRecord.command = ATTRIBUTE
    /\ InferRecord.name = <<120>>
    /\ InferRecord.type \in {TYPE_STRING, TYPE_STRING_INTERNED}

\* C14 as stated: a value of none of the boolean, hex, decimal and float
\* patterns is a STRING_INTERNED record if it is shorter than 50 characters
\* and has no space and no '-' in it, and a STRING record otherwise; the
\* record holds the characters, and a value written as STRING is not in the
\* pool.
C14_AsStated ==
  (Inferred /\ NotAnInteger(InferValue) /\ ~FloatPattern(InferValue)) =>
    /\ InferRecord.command = ATTRIBUTE
    /\ InferRecord.name = <<120>>
    /\ InferRecord.type = StringType(InferValue)
    /\ InferRecord.value = InferValue
    /\ InferRecord.type = TYPE_STRING =>
         ~Occurs(ser.interned_strings, InferValue)

(***************************************************************************)
(* Properties of the deserializer on the streams of records.               *)
(***************************************************************************)
\* deserialize() was called, and returned or threw
Deserialized == phase = "read" /\ des.status \in {"returned", "failed"}
StartsWith(str, head) ==
  Len(str) >= Len(head) /\ SubSeq(str, 1, Len(head)) = head
\* <a with the name introduced
StartTagA == <<START_TAG + TYPE_STRING_INTERNED, 255, 255, 0, 1, 97>>

LowerHex(n) == IF n < 10 THEN 48 + n ELSE 87 + n
\* the text of a hex attribute with the big-endian bytes bs: -1 for the
\* value -1, the lowercase hex digits of the unsigned value otherwise
HexText(bs) ==
  LET nibble(i) == IF i % 2 = 1 THEN bs[(i + 1) \div 2] \div 16
                   ELSE bs[i \div 2] % 16
      n == 2 * Len(bs)
      z == CHOOSE k \in 0..(n - 1) :
             /\ \A i \in 1..k : nibble(i) = 0
             /\ k < n - 1 => nibble(k + 1) # 0
  IN  IF \A i \in 1..Len(bs) : bs[i] = 255 THEN <<45, 49>>
      ELSE [i \in 1..(n - z) |-> LowerHex(nibble(i + z))]

\* C15: an INT_HEX attribute is rendered as -1 when its value is -1 and as
\* the lowercase hexadecimal digits of its 32 bits taken as an unsigned
\* number otherwise, without prefix and without leading zeros; a LONG_HEX
\* attribute in the same way with 64 bits.
C15_HexRendering ==
  Deserialized =>
    \A n \in {4, 8} :
      LET type == IF n = 4 THEN TYPE_INT_HEX ELSE TYPE_LONG_HEX
          head == PROTOCOL_MAGIC_VERSION_0 \o StartTagA \o <<ATTRIBUTE + type, 0, 0>>
      IN  (StartsWith(input, head) /\ Len(input) >= Len(head) + n) =>
            StartsWith(des.mOut,
                       <<60, 97, 32, 97, 61, 34>>
                         \o HexText(SubSeq(input, Len(head) + 1, Len(head) + n))
                         \o <<34>>)

\* <a a="80000000"> was written for the INT_HEX value -2^31, and
\* a="100000000" for the LONG_HEX value 2^32 after it
C15_Witness ==
  /\ Deserialized
  /\ input = PROTOCOL_MAGIC_VERSION_0 \o StartTagA
               \o <<ATTRIBUTE + TYPE_INT_HEX, 0, 0, 128, 0, 0, 0>>
               \o <<ATTRIBUTE + TYPE_LONG_HEX, 0, 0, 0, 0, 0, 1, 0, 0, 0, 0>>
  /\ des.status = "returned"
  /\ des.mOut = <<60, 97, 32, 97, 61, 34, 56, 48, 48, 48, 48, 48, 48, 48, 34,
                  32, 97, 61, 34, 49, 48, 48, 48, 48, 48, 48, 48, 48, 34, 62>>

(***************************************************************************)
(* Entity escaping.                                                        *)
(***************************************************************************)
\* the five characters that are escaped, each with its replacement
Escaped(c) ==
  CASE c = 38 -> <<38, 97, 109, 112, 59>>
    [] c = 60 -> <<38, 108, 116, 59>>
    [] c = 62 -> <<38, 103, 116, 59>>
    [] c = 34 -> <<38, 113, 117, 111, 116, 59>>
    [] c = 39 -> <<38, 97, 112, 111, 115, 59>>
    [] OTHER -> <<c>>
RECURSIVE EscapedText(_)
EscapedText(str) ==
  IF str = <<>> THEN <<>> ELSE Escaped(Head(str)) \o EscapedText(Tail(str))

\* the records of a document of elements, string attributes and text
StringRecords(recs) ==
  \A i \in 1..Len(recs) :
    \/ recs[i].command \in {START_DOCUMENT, END_DOCUMENT, START_TAG, END_TAG}
    \/ recs[i].command = TEXT /\ recs[i].type = TYPE_STRING
    \/ recs[i].command = ATTRIBUTE
         /\ recs[i].type \in {TYPE_STRING, TYPE_STRING_INTERNED}
         /\ i > 1 /\ recs[i - 1].command \in {START_TAG, ATTRIBUTE}
\* the text of such records from the i-th on, up to END_DOCUMENT
RECURSIVE RecordsText(_, _)
RecordsText(recs, i) ==
  IF i > Len(recs) \/ recs[i].command = END_DOCUMENT THEN <<>>
  ELSE LET r == recs[i]
           own == CASE r.command = START_TAG -> <<60>> \o r.name
                    [] r.command = END_TAG -> <<60, 47>> \o r.name \o <<62>>
                    [] r.command = TEXT -> EscapedText(r.value)
                    [] r.command = ATTRIBUTE ->
                         <<32>> \o r.name \o <<61, 34>> \o EscapedText(r.value) \o <<34>>
                    [] OTHER -> <<>>
           close == IF /\ r.command \in {START_TAG, ATTRIBUTE}
                       /\ (i = Len(recs) \/ recs[i + 1].command # ATTRIBUTE)
                    THEN <<62>> ELSE <<>>
       IN  own \o close \o RecordsText(recs, i + 1)
\* the values of the TEXT records, and the texts of the document that are
\* not blank, one after the other
TextsOfRecords(recs) ==
  LET at == {i \in 1..Len(recs) : recs[i].command = TEXT}
  IN  [k \in 1..Cardinality(at) |-> recs[Nth(at, k)].value]
TextsOfDocument(nodes) ==
  LET at == {i \in 1..Len(nodes) :
               nodes[i].type = "pcdata" /\ ~is_whitespace_only(nodes[i].value)}
  IN  [k \in 1..Cardinality(at) |-> nodes[Nth(at, k)].value]

\* C16: the serializer writes the text of a text node into its TEXT record
\* as it is; the deserializer writes every character of a TEXT payload and
\* of a STRING or STRING_INTERNED attribute value as it is, except & < > "
\* and ', for which it writes &amp; &lt; &gt; &quot; and &apos;, each
\* character of the payload being replaced once.
C16_EntityEscaping ==
  /\ (Converted /\ phase = "written" /\ calls[1].thrown = NoError) =>
       TextsOfRecords(ParseStream(ser.output_stream).records)
         = TextsOfDocument(dom.nodes)
  /\ (Converted /\ calls[1].thrown = NoError /\ Deserialized) =>
       [recs \in Any |->
         StringRecords(recs) =>
           /\ des.status = "returned"
           /\ des.mOut = RecordsText(recs, 1)
       ][ParseStream(input).records]

\* <a x="&amp;&lt;&gt;&quot;&apos;&amp;">&lt;&amp;</a> was written for the
\* interned value &<>"'& and the text <&
C16_Witness ==
  /\ Converted
  /\ Deserialized
  /\ Len(dom.nodes) = 2
  /\ dom.nodes[1].attrs = <<[name |-> <<120>>, value |-> <<38, 60, 62, 34, 39, 38>>]>>
  /\ dom.nodes[2].value = <<60, 38>>
  /\ ParseStream(input).records[3].type = TYPE_STRING_INTERNED
  /\ ParseStream(input).records[4].value = <<60, 38>>
  /\ des.mOut = <<60, 97, 32, 120, 61, 34,
                  38, 97, 109, 112, 59, 38, 108, 116, 59, 38, 103, 116, 59,
                  38, 113, 117, 111, 116, 59, 38, 97, 112, 111, 115, 59,
                  38, 97, 109, 112, 59, 34, 62,
                  38, 108, 116, 59, 38, 97, 109, 112, 59, 60, 47, 97, 62>>

(***************************************************************************)
(* Streams that end early.                                                 *)
(***************************************************************************)
\* the input is the stream of a conversion without its last bytes: the
\* magic is there, END_DOCUMENT, the last byte of the stream, is not
CutShort ==
  /\ Converted
  /\ calls[1].thrown = NoError
  /\ Len(input) >= 4
  /\ Len(input) < Len(ser.output_stream)
  /\ input = SubSeq(ser.output_stream, 1, Len(input))

\* C17 as stated: deserialize() on a stream that was cut short before its
\* END_DOCUMENT token does not return normally: it fails with an error.
C17_AsStated ==
  (Deserialized /\ CutShort) =>
    /\ des.status = "failed"
    /\ des.thrown # NoError

(***************************************************************************)
(* Streams with records that no serializer writes.                         *)
(***************************************************************************)
DefinedTypes ==
  {TYPE_NULL, TYPE_STRING, TYPE_STRING_INTERNED, TYPE_BYTES_HEX, TYPE_BYTES_BASE64,
   TYPE_INT, TYPE_INT_HEX, TYPE_LONG, TYPE_LONG_HEX, TYPE_FLOAT, TYPE_DOUBLE,
   TYPE_BOOLEAN_TRUE, TYPE_BOOLEAN_FALSE}
\* an ATTRIBUTE record whose type is not defined
UndefinedAttribute(r) ==
  /\ CommandOf(r[1]) = ATTRIBUTE
  /\ TypeOf(r[1]) \notin DefinedTypes

\* C18 as stated: when an ATTRIBUTE token of a type that is not defined
\* follows a START_TAG, deserialize() fails with the error for an unknown
\* attribute type; it does not return.
C18_AsStated ==
  Deserialized =>
    \A r \in TokenRecords :
      (UndefinedAttribute(r)
         /\ StartsWith(input, PROTOCOL_MAGIC_VERSION_0 \o StartTagA \o r)) =>
        /\ des.status = "failed"
        /\ des.thrown = UnknownAttributeType(TypeOf(r[1]))

\* a START_TAG or END_TAG record whose name is a reference, and the index
\* it refers to
NameReference(r) ==
  /\ CommandOf(r[1]) \in {START_TAG, END_TAG}
  /\ Len(r) = 3
  /\ <<r[2], r[3]>> # <<255, 255>>
ReferredIndex(r) == r[2] * 256 + r[3]

\* C19: a START_TAG or END_TAG record whose name is a reference to an index
\* that is not below the number of strings introduced before it, and which
\* is not the end of the stream, makes deserialize() fail with the error
\* for a bad index; the pool of the reader and the text written are what
\* they were before the record.
C19_BadInternIndex ==
  Deserialized =>
    \A r \in TokenRecords, known \in 0..1 :
      LET before == PROTOCOL_MAGIC_VERSION_0 \o (IF known = 1 THEN StartTagA ELSE <<>>)
      IN  (NameReference(r) /\ ReferredIndex(r) >= known
             /\ StartsWith(input, before \o r)
             /\ Len(input) > Len(before \o r)) =>
            /\ des.status = "failed"
            /\ des.thrown = BadInternIndex
            /\ des.interned_strings = (IF known = 1 THEN <<<<97>>>> ELSE <<>>)
            /\ des.mOut = (IF known = 1 THEN <<60, 97, 62>> ELSE <<>>)

\* <a> was written, then the end tag with the index 1 was read, the pool
\* holding one string
C19_Witness ==
  /\ Deserialized
  /\ input = PROTOCOL_MAGIC_VERSION_0 \o StartTagA
               \o <<END_TAG + TYPE_STRING_INTERNED, 0, 1>> \o <<END_DOCUMENT + TYPE_NULL>>
  /\ des.status = "failed"
  /\ des.thrown = BadInternIndex
  /\ des.interned_strings = <<<<97>>>>
  /\ des.mOut = <<60, 97, 62>>

(***************************************************************************)
(* The limit of writeUTF.                                                  *)
(***************************************************************************)
\* C20: writeUTF of a string of at most 65535 bytes succeeds and appends
\* the two bytes of the length, FF FF for 65535, and the bytes of the
\* string; writeUTF of a longer string fails with the error for a string
\* that is too long, and appends nothing.
C20_StringLength ==
  [][Called =>
       IF Len(input) <= 65535
       THEN /\ ser'.thrown = NoError
            /\ AppendOnly
            /\ Appended = U16(Len(input)) \o input
            /\ Len(input) = 65535 => SubSeq(Appended, 1, 2) = <<255, 255>>
       ELSE /\ ser'.thrown = StringTooLong
            /\ ser'.output_stream = ser.output_stream]_vars

\* a string of 65535 bytes was written
C20_Witness ==
  /\ Len(calls) = 1
  /\ Len(input) = 65535
  /\ calls[1].thrown = NoError
  /\ Len(ser.output_stream) = 4 + 2 + 65535
  /\ SubSeq(ser.output_stream, 5, 8) = <<255, 255, input[1], input[2]>>
  /\ ser.output_stream[65541] = input[65535]

(***************************************************************************)
(* The end of the document and the open tags.                              *)
(***************************************************************************)
\* C22: endDocument called while a started tag has not been ended fails with
\* the error for an unbalanced end and does not write the END_DOCUMENT
\* token.
C22_AsStated ==
  [][(Called /\ LastCall.op = "endDocument" /\ ser.mTagCount > 0) =>
       /\ ser'.thrown = UnbalancedEnd
       /\ ser'.output_stream = ser.output_stream]_vars

(***************************************************************************)
(* The capacity of the pool of the writer.                                 *)
(***************************************************************************)
\* C21: writeInternedUTF of a string of the pool succeeds and writes its
\* index, whatever the size of the pool; a new string is taken while the pool
\* holds fewer than 65535 strings, getting the next index (at most 65534),
\* and written after the sentinel FF FF; on a pool of 65535 strings a new
\* string fails with the pool overflow error, and neither the pool nor the
\* stream changes.  No index of the pool is 65535.
C21_PoolCapacity ==
  [][Called =>
       LET str == LastCall.name
           pool == ser.interned_strings
       IN  /\ IF Occurs(pool, str)
              THEN /\ ser'.thrown = NoError
                   /\ AppendOnly
                   /\ Appended = U16(FirstAt(pool, str) - 1)
                   /\ Appended # Sentinel
                   /\ ser'.interned_strings = pool
                   /\ ser'.string_pool = ser.string_pool
              ELSE IF Len(pool) < 65535
                   THEN /\ ser'.thrown = NoError
                        /\ AppendOnly
                        /\ Appended = Sentinel \o U16(Len(str)) \o str
                        /\ ser'.interned_strings = Append(pool, str)
                        /\ DOMAIN ser'.string_pool = DOMAIN ser.string_pool \cup {str}
                        /\ ser'.string_pool[str] = Len(pool)
                   ELSE /\ ser'.thrown = PoolOverflow
                        /\ ser'.output_stream = ser.output_stream
                        /\ ser'.interned_strings = pool
                        /\ ser'.string_pool = ser.string_pool
           /\ Len(ser'.interned_strings) <= 65535
           /\ \A s \in PoolInputs :
                s \in DOMAIN ser'.string_pool =>
                  /\ ser'.string_pool[s] < 65535
                  /\ ser'.interned_strings[ser'.string_pool[s] + 1] = s]_vars

\* the pool held 65534 strings; the string FF FF was new and got the index
\* 65534, then the string a was refused
C21_Witness ==
  /\ Len(calls) = 2
  /\ calls[1].name = PoolString(65535) /\ calls[1].thrown = NoError
  /\ calls[2].name = <<97>> /\ calls[2].thrown = PoolOverflow
  /\ Len(ser.interned_strings) = 65535
  /\ ser.string_pool[PoolString(65535)] = 65534
  /\ <<97>> \notin DOMAIN ser.string_pool
  /\ Len(ser.output_stream) = 4 + 6 * 65535
  /\ SubSeq(ser.output_stream, 4 + 6 * 65534 + 1, 4 + 6 * 65535) = <<255, 255, 0, 2, 255, 255>>

(***************************************************************************)
(* The warnings of a conversion.                                           *)
(***************************************************************************)
\* a conversion with a warning callback was made
WithCallback == phase = "written" /\ calls[1].name = "warning_callback"

\* C24: a conversion with a warning callback calls it at most once for the
\* category "Namespaces and prefixes", whatever the number of declarations
\* and prefixed names of the document, and does not fail.
C24_AsStated ==
  WithCallback =>
    /\ ser.thrown = NoError
    /\ Len(SelectSeq(ser.warnings, LAMBDA c : c.category = NAMESPACES)) <= 1

(***************************************************************************)
(* Tokens of commands that are not defined.                                *)
(***************************************************************************)
UnknownCommands == {<<11 + TYPE_NULL>>, <<14 + TYPE_STRING>>}
\* what a caller of deserialize() sees of it
Outcome(d) ==
  [status |-> d.status, thrown |-> d.thrown, mOut |-> d.mOut,
   interned_strings |-> d.interned_strings]
\* the stream is lead, a token of an undefined command, and more
SkippedToken(lead, t) ==
  /\ Deserialized
  /\ StartsWith(input, PROTOCOL_MAGIC_VERSION_0 \o lead \o t)
\* the stream with the token left out, and with START_DOCUMENT, a token of
\* one byte for which nothing is written, in its place
Without(lead, t) ==
  PROTOCOL_MAGIC_VERSION_0 \o lead
    \o SubSeq(input, 4 + Len(lead) + Len(t) + 1, Len(input))
Replaced(lead, t) ==
  PROTOCOL_MAGIC_VERSION_0 \o lead \o <<START_DOCUMENT + TYPE_NULL>>
    \o SubSeq(input, 4 + Len(lead) + Len(t) + 1, Len(input))
\* decoding the stream bytes has the result that decoding input had
SameAs(bytes) ==
  \E ub \in UBOutcomes :
    Outcome(des) = Outcome(deserialize(BinaryXmlDeserializer(bytes), ub))

\* C23: a token of an undefined command read by the main loop, at the start
\* of the stream or after a start tag, is reported as a warning; the one
\* byte is consumed, nothing is written for it, and decoding goes on with the
\* next byte: the result is that of the stream with START_DOCUMENT in the
\* place of the token and, at the start of the stream, of the stream without
\* the token.
C23_AsStated ==
  \A lead \in {<<>>, StartTagA}, t \in UnknownCommands :
    SkippedToken(lead, t) =>
      /\ des.cerr # <<>>
      /\ SameAs(Replaced(lead, t))
      /\ lead = <<>> => SameAs(Without(lead, t))

(***************************************************************************)
(* Text nodes and whitespace.                                              *)
(***************************************************************************)
\* blank, tab, newline, vertical tab, form feed and carriage return
Whitespace == {32, 9, 10, 11, 12, 13}
AllWhitespace(str) == \A i \in 1..Len(str) : str[i] \in Whitespace
\* the records that the text nodes from the i-th node on are to give
RECURSIVE TextRecordsOf(_, _, _)
TextRecordsOf(nodes, i, collapse) ==
  IF i > Len(nodes) THEN <<>>
  ELSE LET own == IF nodes[i].type # "pcdata" THEN <<>>
                  ELSE IF ~AllWhitespace(nodes[i].value)
                       THEN <<[command |-> TEXT, value |-> nodes[i].value]>>
                       ELSE IF collapse THEN <<>>
                            ELSE <<[command |-> IGNORABLE_WHITESPACE,
                                    value |-> nodes[i].value]>>
       IN  own \o TextRecordsOf(nodes, i + 1, collapse)
\* the TEXT and IGNORABLE_WHITESPACE records of a stream
TextRecordsIn(recs) ==
  LET at == {i \in 1..Len(recs) : recs[i].command \in {TEXT, IGNORABLE_WHITESPACE}}
  IN  [k \in 1..Cardinality(at) |->
         [command |-> recs[Nth(at, k)].command, value |-> recs[Nth(at, k)].value]]

\* C25: a text node that is whitespace only gives an IGNORABLE_WHITESPACE
\* record with the text as it is when collapse_whitespaces is off and no
\* record when it is on; any other text node gives a TEXT record with the
\* text as it is, whitespace included, whatever the option.
C25_WhitespacePolicy ==
  (Converted /\ phase = "written") =>
    LET p == ParseStream(ser.output_stream)
    IN  /\ p.ok
        /\ TextRecordsIn(p.records) = TextRecordsOf(dom.nodes, 1, calls[1].value)
        /\ \A i \in 1..Len(p.records) :
             p.records[i].command \in {TEXT, IGNORABLE_WHITESPACE} =>
               p.records[i].type = TYPE_STRING

\* <a>{newline tab blank}<b/>{blank t blank}</a> converted with
\* collapse_whitespaces off: an IGNORABLE_WHITESPACE and a TEXT record
C25_Witness ==
  /\ Converted /\ phase = "written"
  /\ calls[1].op = "serializeXmlToAbx"
  /\ calls[1].value = FALSE
  /\ Len(dom.nodes) = 4
  /\ dom.nodes[2].value = <<10, 9, 32>>
  /\ dom.nodes[4].value = <<32, 116, 32>>
  /\ ser.output_stream =
       <<65, 66, 88, 0, 16, 50, 255, 255, 0, 1, 97, 39, 0, 3, 10, 9, 32,
         50, 255, 255, 0, 1, 98, 51, 0, 1, 36, 0, 3, 32, 116, 32, 51, 0, 0, 17>>

(***************************************************************************)
(* The loop of deserialize(), turn by turn.                                *)
(***************************************************************************)
\* a turn of the loop was made
Turned ==
  /\ phase = "read"
  /\ des.status \in {"constructed", "decoding"}
  /\ des'.status # des.status \/ des'.pos # des.pos
\* the turn reads a START_TAG or END_TAG token whose name is the reference k
TagByReference(k) ==
  /\ des.pos + 3 <= Len(input)
  /\ CommandOf(input[des.pos + 1]) \in {START_TAG, END_TAG}
  /\ k = input[des.pos + 2] * 256 + input[des.pos + 3]
\* what the turn wrote
Written == SubSeq(des'.mOut, Len(des.mOut) + 1, Len(des'.mOut))

\* C26: a turn of the loop leaves every string of the reader's pool at its
\* index, whatever it reads and adds; and a START_TAG or END_TAG whose name
\* is the reference k to a string of the pool is written with the string at
\* index k.  So two reads of the reference k give the same string.
C26_PoolMonotonic ==
  [][Turned =>
       /\ Len(des'.interned_strings) >= Len(des.interned_strings)
       /\ SubSeq(des'.interned_strings, 1, Len(des.interned_strings)) = des.interned_strings
       /\ \A k \in 0..(Len(des.interned_strings) - 1) :
            TagByReference(k) =>
              LET name == des.interned_strings[k + 1]
              IN  /\ des'.thrown = NoError
                  /\ IF CommandOf(input[des.pos + 1]) = START_TAG
                     THEN /\ Len(Written) >= Len(name) + 2
                          /\ SubSeq(Written, 1, Len(name) + 1) = <<60>> \o name
                     ELSE Written = <<60, 47>> \o name \o <<62>>]_vars

\* <a><b></a>: the reference 0 was read after b was added to the pool, and
\* gave a
C26_Witness ==
  /\ input = PROTOCOL_MAGIC_VERSION_0 \o StartTagA
               \o <<START_TAG + TYPE_STRING_INTERNED, 255, 255, 0, 1, 98>>
               \o <<END_TAG + TYPE_STRING_INTERNED, 0, 0>>
  /\ phase = "read"
  /\ des.status = "decoding"
  /\ des.pos = Len(input)
  /\ des.interned_strings = <<<<97>>, <<98>>>>
  /\ des.mOut = <<60, 97, 62, 60, 98, 62, 60, 47, 97, 62>>

\* the turn reads a START_TAG token and its name
StartTagTurn ==
  /\ Turned
  /\ des.pos + 1 <= Len(input)
  /\ CommandOf(input[des.pos + 1]) = START_TAG
  /\ Written # <<>>
\* how often the byte c is in the text
Count(chars, c) == Cardinality({i \in 1..Len(chars) : chars[i] = c})

\* C28: the turn of a START_TAG reads tokens as long as they are ATTRIBUTE
\* tokens and stops in front of the first byte that is none, which the next
\* turn of the main loop reads; it writes <name, then blank name="value" for
\* each attribute, then one >.
C28_AsStated ==
  [][StartTagTurn =>
       /\ des'.pos = Len(input) \/ CommandOf(input[des'.pos + 1]) # ATTRIBUTE
       /\ Written[1] = 60
       /\ Written[Len(Written)] = 62
       /\ Count(Written, 62) = 1
       /\ Count(Written, 34) = 2 * Count(Written, 61)
       /\ Count(Written, 32) = Count(Written, 61)]_vars

\* the loop of deserialize() is about to make a turn
InLoop == phase = "read" /\ des.status \in {"constructed", "decoding"}
Ended(d) == d.status \in {"returned", "failed"}
\* the reader after the token of a START_TAG, its name and the output of
\* <name, where the attribute sub-loop starts
AtAttributes == [n \in Any |-> emit(n, <<60>> \o strval(n))][readInternedUTF(readByte(des))]

\* C29: deserialize() terminates on every stream that starts with the magic.
\* Every turn of its loop ends the call or leaves the stream at least one
\* byte further, and never beyond the end of the stream; the attribute
\* sub-loop leaves the stream at or after the position of the first token it
\* looked at; and the turn that reads an END_DOCUMENT token ends the call
\* with that one byte read and nothing written, so that nothing after it is
\* read or written.
C29_Termination ==
  InLoop =>
    \A ub \in UBOutcomes :
      [next \in Any |->
        /\ Ended(next) \/ next.pos > des.pos
        /\ next.pos <= Len(input)
        /\ des.pos <= Len(input)
        /\ (~eof(des).val /\ CommandOf(input[des.pos + 1]) = START_TAG
              /\ AtAttributes.thrown = NoError) =>
             /\ attributeLoop(AtAttributes, ub).pos >= AtAttributes.pos
             /\ next.pos = attributeLoop(AtAttributes, ub).pos
        /\ (~eof(des).val /\ CommandOf(input[des.pos + 1]) = END_DOCUMENT) =>
             /\ next.status = "returned"
             /\ next.pos = des.pos + 1
             /\ next.mOut = des.mOut
             /\ next.interned_strings = des.interned_strings
      ][deserializeTurn(des, ub)]

\* <a, END_DOCUMENT, </a>: the call returned at END_DOCUMENT after two
\* turns, the three bytes of the end tag were not read
C29_Witness ==
  /\ input = PROTOCOL_MAGIC_VERSION_0 \o StartTagA \o <<END_DOCUMENT + TYPE_NULL>>
               \o <<END_TAG + TYPE_STRING_INTERNED, 0, 0>>
  /\ phase = "read"
  /\ des.status = "returned"
  /\ des.pos = 11
  /\ des.mOut = <<60, 97, 62>>

(***************************************************************************)
(* The codes of the C API.                                                 *)
(***************************************************************************)
\* abx_serializer_end_tag was called on the handle the caller holds, with a
\* name
EndTagCalled ==
  /\ Called
  /\ LastCall.op = "abx_serializer_end_tag"
  /\ LastCall.handle = "held"
  /\ LastCall.name # "null"
  /\ ~ser.null

\* name is the most recent unmatched start tag of the serializer behind ser
MostRecentOpen(name) ==
  /\ ser.at.serializer.mTagCount > 0
  /\ ser.at.serializer.mTagNames[ser.at.serializer.mTagCount] = ApiNames[name].at

\* C27: abx_serializer_end_tag returns ABX_OK when name is the most recent
\* unmatched start tag and ABX_ERROR_TAG_MISMATCH when it is not or when no
\* tag is open; after such a failure abx_get_last_error() is not NULL, and
\* after any later call that returns ABX_OK it is NULL again.
C27_AsStated ==
  [][/\ EndTagCalled =>
          /\ LastCall.code = IF MostRecentOpen(LastCall.name)
                             THEN <<ABX_OK>> ELSE <<ABX_ERROR_TAG_MISMATCH>>
          /\ LastCall.code # <<ABX_OK>> => ~abx_get_last_error(g_last_error').null
     /\ (Called /\ LastCall.code = <<ABX_OK>>) => abx_get_last_error(g_last_error').null
    ]_vars

(***************************************************************************)
(* The round trip of an attribute value.                                   *)
(***************************************************************************)
\* the text of the attribute x in the output <a x="..." y="42"></a>: what is
\* between the first quotation mark and the next one
AttributeText(out) == SubSeq(out, 7, FindFrom(out, <<34>>, 7) - 1)

\* the deserializer after the conversion of <a x="v" y="42"/> was decoded
RoundTrip(v, ub) ==
  deserialize(
    BinaryXmlDeserializer(
      convertXmlStringToAbx(InferDocument(v).nodes, ParseOk, <<>>,
                            [collapse_whitespaces |-> FALSE,
                             warning_callback |-> FALSE]).output_stream),
    ub)

XmlSpecial == {38, 60, 62, 34, 39}

\* the conversion of <a x="v" y="42"/> was decoded, v has none of & < > " '
\* in it and was not written as a FLOAT record
RoundTripped ==
  /\ Inferred
  /\ Deserialized
  /\ InferRecord.type # TYPE_FLOAT
  /\ \A i \in 1..Len(InferValue) : InferValue[i] \notin XmlSpecial

\* C30: for a value v that the inference does not write as a FLOAT record
\* and that has none of the five special characters, the text R(v) that the
\* deserializer writes for the attribute x of <a x="v" y="42"/> is a fixed
\* point of the round trip: the conversion of <a x="R(v)" y="42"/> is
\* decoded to the attribute text R(v) again; R(v) may differ from v.
C30_RoundTripIdempotent ==
  RoundTripped =>
    /\ des.status = "returned"
    /\ StartsAt(des.mOut, <<60, 97, 32, 120, 61, 34>>, 1)
    /\ \A ub \in UBOutcomes :
         [again \in Any |->
           /\ again.status = "returned"
           /\ AttributeText(again.mOut) = AttributeText(des.mOut)
         ][RoundTrip(AttributeText(des.mOut), ub)]

\* "0xf1" came back as "f1" and "0000000" as "0"
C30_Witness ==
  /\ RoundTripped
  /\ \/ /\ InferValue = <<48, 120, 102, 49>>
        /\ AttributeText(des.mOut) = <<102, 49>>
     \/ /\ InferValue = <<48, 48, 48, 48, 48, 48, 48>>
        /\ AttributeText(des.mOut) = <<48>>

====
